---- MODULE Spec2Model ----
(***************************************************************************)
(* Model of the workflow orchestration core of infinite-minds:             *)
(*   - MultiAgentOrchestrator.executeWorkflow (the task graph executor),   *)
(*   - the remote job monitors monitorDeployment and                       *)
(*     waitForOpenCodeCompletion, with GitHubService.listWorkflowRuns.     *)
(***************************************************************************)
EXTENDS Integers, Sequences, FiniteSets, TLC

(* ------------------------------ bounds -------------------------------- *)
\* largest number of tasks of a graph given to executeWorkflow
MaxTasks == 3
\* largest length of a task's dependencies list
MaxDeps == 2

VARIABLES
    tasks,            \* executeWorkflow argument: task id -> its dependencies
    wfPc,             \* position of executeWorkflow
    pendingTasks,     \* orchestrator.ts:180
    completedTasks,   \* orchestrator.ts:181
    results,          \* orchestrator.ts:179, the Map task id -> AgentTaskResult
    inFlight,         \* tasks whose callAIAPI request has not settled yet
    returned,         \* executeSingleTask results not yet stored by line 216
    previousCompletedCount, \* orchestrator.ts:236
    events,           \* every WorkflowProgress passed to emitProgress, in order
    invokerCalls,     \* task id -> number of callAIAPI requests issued for it
    produced,         \* task id -> the result executeSingleTask returned for it
    monKind,          \* which monitor runs: monitorDeployment or waitForOpenCodeCompletion
    monPc,            \* position of the monitor
    timeout,          \* the monitor's timeout argument, in ms
    startTime,        \* Date.now() at the monitor's start, in half seconds
    maxPolls,         \* part_011:793, orchestrator.ts:609
    pollCount,        \* part_011:792, orchestrator.ts:610
    lastRunId,        \* part_011:791, orchestrator.ts:611 (0 is null)
    monResult,        \* the value the monitor returned
    monEvents,        \* the progress events the monitor emitted, in order
    ciRuns,           \* the CI system: run id -> the run as the GitHub API holds it
    lastObs,          \* the last poll: its response and the matching run it listed
    prPc,             \* position of executeGitHubWorkflow (part_011) from line 492 on
    canCommitToGitHub, \* part_011:412
    changes,          \* part_011:490, the CodeChange list (each change is its path)
    developSuccess,   \* results.get('develop')?.success of part_011:489
    commitIdx,        \* the loop variable i of part_011:543
    remoteLog,        \* the /api/github requests issued and their responses, in order
    prEvents,         \* the progress events executeGitHubWorkflow emitted itself
    prResult,         \* the value executeGitHubWorkflow returned
    facKind,          \* which facade of AgentSwarm runs: news or github
    facPc,            \* position of the facade
    realPc,           \* position of the orchestrator's workflow the facade called
    realResult,       \* the value that workflow returned
    ghEvents,         \* the step events executeGitHubWorkflow (orchestrator.ts) emitted
    messages,         \* the messages the facade's own statements emitted, in order
    catches,          \* how often the catch block of the facade was entered
    fallbackRuns,     \* how often a scripted fallback was started
    facResult,        \* the value the facade resolved with
    blocks,           \* the two blocks the payload was written from
    content,          \* the argument of parseCodeChanges
    parsed,           \* the CodeChange list parseCodeChanges returned
    parsePc,          \* position of the parseCodeChanges call
    invocation,       \* the number of the facade call under way on this AgentSwarm
    progressCallbacks, \* orchestrator.ts:41, each handler named by the main task it closes over
    workflowResults,  \* orchestrator.ts:42, workflow id -> the result map stored for it
    agents,           \* swarm.ts:72, agent id -> its status
    mainTasks,        \* swarm.ts:73, id of a facade call's main task -> its status and progress
    subscribers,      \* orchestrator.ts:41, the callbacks a direct caller registered: the events each raises on
    received,         \* subscriber -> how many events emitProgress handed to it
    calls             \* executeWorkflow calls under way at once -> the locals of each (orchestrator.ts:179-182)

wfVars == <<tasks, wfPc, pendingTasks, completedTasks, results, inFlight,
            returned, previousCompletedCount, events, invokerCalls, produced>>

monVars == <<monKind, monPc, timeout, startTime, maxPolls, pollCount, lastRunId,
             monResult, monEvents, ciRuns, lastObs>>

prVars == <<prPc, canCommitToGitHub, changes, developSuccess, commitIdx,
            remoteLog, prEvents, prResult>>

facVars == <<facKind, facPc, realPc, realResult, ghEvents, messages, catches,
             fallbackRuns, facResult>>

parseVars == <<blocks, content, parsed, parsePc>>

swVars == <<invocation, progressCallbacks, workflowResults, agents, mainTasks>>

orchVars == <<subscribers, received, calls>>

vars == <<wfVars, monVars, prVars, facVars, parseVars, swVars, orchVars>>

\* what an action of executeWorkflow leaves alone, but for the writes of the
\* progress handlers it calls
notWf == <<monVars, prVars, facVars, parseVars, subscribers, calls, invocation,
           progressCallbacks,
           workflowResults>>

\* what an action of a monitor or of the CI system leaves alone
notMon == <<wfVars, prVars, facVars, parseVars, orchVars, swVars>>

(* --------------------------- task graphs ------------------------------ *)
\* Dependency ids: 1..MaxTasks can be task ids, 0 is an id of no task.
DepIds == 0..MaxTasks

DepLists == {d \in SUBSET DepIds : Cardinality(d) <= MaxDeps}

\* AgentTask[] with unique ids 1..n, listed in id order. The ids are numbered
\* by the length of the dependencies list: every graph is one of these up to
\* the names of its tasks.
TaskGraphs ==
    UNION {{g \in [1..n -> DepLists] :
               \A i \in 1..(n - 1) : Cardinality(g[i]) <= Cardinality(g[i + 1])}
           : n \in 0..MaxTasks}

TaskIds == DOMAIN tasks

totalTasks == Cardinality(TaskIds)

(* -------------------------- AgentTaskResult --------------------------- *)
\* error text of the stall branch, orchestrator.ts:247
DependencyUnmet == "dependency unmet or cyclic dependency"

\* error text of a failed callAIAPI, orchestrator.ts:96-100
ApiError == "AI API request failed"

TaskResult(ok, t) ==
    [success |-> ok, content |-> IF ok THEN t ELSE 0,
     error |-> IF ok THEN "" ELSE ApiError]

StallResult == [success |-> FALSE, content |-> 0, error |-> DependencyUnmet]

(* ------------------------- WorkflowProgress --------------------------- *)
\* agentId is the agent of the task of a task event and 'system' (0) for the
\* events of orchestrator.ts:185-192 and 263-270; the agent of task t is named t
Progress(scope, stepId, status, progress) ==
    [scope |-> scope, stepId |-> stepId, status |-> status, progress |-> progress,
     agentId |-> IF scope = "task" THEN stepId ELSE 0]

\* the aggregate event of orchestrator.ts:221-228: stepId 'workflow', status
\* 'running' and the agentId of the task whose result was stored
AggregateProgress(t, progress) ==
    [Progress("workflow", 0, "running", progress) EXCEPT !.agentId = t]

\* a progress computed from the tasks still to do instead of the tasks done
OverallProgressRemaining(completed, total) == (100 * (total - completed)) \div total

\* Math.round((completed / total) * 100), orchestrator.ts:220
OverallProgress(completed, total) == (200 * completed + total) \div (2 * total)

\* ascending enumeration of a finite set of task ids (Map insertion order)
RECURSIVE InOrder(_)
InOrder(S) ==
    IF S = {} THEN <<>>
    ELSE LET m == CHOOSE x \in S : \A y \in S : x <= y
         IN <<m>> \o InOrder(S \ {m})

\* one event with the given status and progress 0 per task of the list
TaskEvents(status, ts) ==
    [i \in 1..Len(ts) |-> Progress("task", ts[i], status, 0)]

(* ------------------- progress handlers of the swarm ------------------- *)
\* agents of DEFAULT_AGENTS, swarm.ts:20-60: researcher-1 = 1, writer-1 = 2,
\* translator-1 = 3 (the agents of the news tasks 1, 2, 3) and pm-1; the
\* agentId 'system' (0) is the id of no agent
PmAgent == 10

AgentIds == {1, 2, 3, PmAgent}

\* the handler AgentSwarm registers with onProgress, swarm.ts:252-275 and
\* 435-453, for the facade call whose main task is m, applied to the event e
\* in the swarm state sw: updateAgentStatus (149-154), and updateTaskProgress
\* (186-195) of the main task for an event with stepId 'workflow'
HandleProgress(sw, m, e) ==
    [agents |->
         IF e.agentId \in DOMAIN sw.agents
         THEN [sw.agents EXCEPT ![e.agentId] =
                   IF e.status = "running" THEN "working" ELSE "idle"]
         ELSE sw.agents,
     tasks |->
         IF e.scope = "workflow" /\ m \in DOMAIN sw.tasks
         THEN [sw.tasks EXCEPT ![m].progress = e.progress]
         ELSE sw.tasks]

\* progressCallbacks.forEach((cb) => cb(progress)), orchestrator.ts:69, from
\* the k-th callback on
RECURSIVE CallEach(_, _, _)
CallEach(sw, k, e) ==
    IF k > Len(progressCallbacks) THEN sw
    ELSE CallEach(HandleProgress(sw, progressCallbacks[k], e), k + 1, e)

\* emitProgress for each event of the list in turn
RECURSIVE EmitAll(_, _)
EmitAll(sw, evs) ==
    IF evs = <<>> THEN sw
    ELSE EmitAll(CallEach(sw, 1, Head(evs)), Tail(evs))

\* what a callback can tell from an event: its scope, its status and whether
\* its progress is above 0; the pairs of emit sites that share a class are the
\* catch block (orchestrator.ts:157) and the stall branch (249)
EventClass(e) == <<e.scope, e.status, e.progress > 0>>

\* a subscriber is the set of the classes of the events its callback raises
\* on; s is its position in the list
Raises(s, e) == EventClass(e) \in subscribers[s]

\* the first subscriber that raises on e, 0 when none does
FirstRaiser(e) ==
    LET R == {s \in DOMAIN subscribers : Raises(s, e)}
    IN IF R = {} THEN 0 ELSE CHOOSE s \in R : \A r \in R : s <= r

Raised(e) == FirstRaiser(e) # 0

\* forEach (orchestrator.ts:69) calls the callbacks in list order and has no
\* try/catch: the first exception leaves it, the callbacks behind are not called
Reached(e) ==
    IF Raised(e) THEN 1..FirstRaiser(e) ELSE DOMAIN subscribers

\* the received counts after emitProgress was called for each event of the
\* list (each call either returned or raised; the caller went on)
RECURSIVE Deliver(_, _)
Deliver(rc, evs) ==
    IF evs = <<>> THEN rc
    ELSE Deliver([s \in DOMAIN rc |->
                      IF s \in Reached(Head(evs)) THEN rc[s] + 1 ELSE rc[s]],
                 Tail(evs))

\* the events a step appended
Emitted == SubSeq(events', Len(events) + 1, Len(events'))

\* the emitProgress calls of a step of executeWorkflow when no callback
\* raises: every event the step appended is handed to every registered
\* callback, orchestrator.ts:68-70
EmitProgress ==
    LET sw == EmitAll([agents |-> agents, tasks |-> mainTasks], Emitted)
    IN /\ \A i \in DOMAIN Emitted : ~Raised(Emitted[i])
       /\ agents' = sw.agents
       /\ mainTasks' = sw.tasks
       /\ received' = Deliver(received, Emitted)

\* the emitProgress calls of a step in which callbacks raise; the swarm's
\* handlers are not registered where raising subscribers are
EmitProgressRaised ==
    /\ received' = Deliver(received, Emitted)
    /\ UNCHANGED <<agents, mainTasks>>

(* --------------------------- executeWorkflow -------------------------- *)
\* "some" in place of "every": one completed dependency is enough
areDependenciesMetSome(t) ==
    tasks[t] = {} \/ \E d \in tasks[t] : d \in completedTasks

areDependenciesMet(t) == tasks[t] \subseteq completedTasks

WfInit ==
    /\ tasks \in TaskGraphs
    /\ wfPc = "start"
    /\ pendingTasks = {}
    /\ completedTasks = {}
    /\ results = <<>>
    /\ inFlight = {}
    /\ returned = {}
    /\ previousCompletedCount = 0
    /\ events = <<>>
    /\ invokerCalls = [t \in DOMAIN tasks |-> 0]
    /\ produced = <<>>

\* orchestrator.ts:179-192
StartWorkflow ==
    /\ wfPc = "start"
    /\ pendingTasks' = TaskIds
    /\ events' = Append(events, Progress("workflow", 0, "running", 0))
    /\ wfPc' = "loop"
    /\ UNCHANGED <<tasks, completedTasks, results, inFlight, returned,
                   previousCompletedCount, invokerCalls, produced>>
    /\ EmitProgress
    /\ UNCHANGED notWf

\* a batch that starts only the first ready task
ExecuteBatchOneAtATime ==
    /\ wfPc = "loop"
    /\ pendingTasks # {}
    /\ LET ready == {t \in pendingTasks : areDependenciesMet(t)}
           readyTasks == IF ready = {} THEN {}
                         ELSE {CHOOSE x \in ready : \A y \in ready : x <= y}
       IN /\ previousCompletedCount' = Cardinality(completedTasks)
          /\ pendingTasks' = pendingTasks \ readyTasks
          /\ events' = events \o
                 TaskEvents("running", InOrder(readyTasks))
          /\ inFlight' = readyTasks
          /\ invokerCalls' = [t \in TaskIds |->
                 IF t \in readyTasks THEN invokerCalls[t] + 1 ELSE invokerCalls[t]]
    /\ wfPc' = "await"
    /\ UNCHANGED <<tasks, completedTasks, results, returned, produced>>
    /\ EmitProgress
    /\ UNCHANGED notWf

\* a batch that leaves the tasks it starts in pendingTasks
ExecuteBatchKeepsPending ==
    /\ wfPc = "loop"
    /\ pendingTasks # {}
    /\ LET readyTasks == {t \in pendingTasks : areDependenciesMet(t)}
       IN /\ previousCompletedCount' = Cardinality(completedTasks)
          /\ pendingTasks' = pendingTasks
          /\ events' = events \o
                 TaskEvents("running", InOrder(readyTasks))
          /\ inFlight' = readyTasks
          /\ invokerCalls' = [t \in TaskIds |->
                 IF t \in readyTasks THEN invokerCalls[t] + 1 ELSE invokerCalls[t]]
    /\ wfPc' = "await"
    /\ UNCHANGED <<tasks, completedTasks, results, returned, produced>>
    /\ EmitProgress
    /\ UNCHANGED notWf

\* a loop without the await of Promise.all: tasks that became ready are
\* started while tasks of the batch before are still in flight
ExecuteBatchNoBarrier ==
    /\ wfPc \in {"loop", "await"}
    /\ pendingTasks # {}
    /\ LET readyTasks == {t \in pendingTasks : areDependenciesMet(t)}
       IN /\ wfPc = "await" => readyTasks # {}
          /\ previousCompletedCount' =
                 IF wfPc = "loop" THEN Cardinality(completedTasks)
                 ELSE previousCompletedCount
          /\ pendingTasks' = pendingTasks \ readyTasks
          /\ events' = events \o
                 TaskEvents("running", InOrder(readyTasks))
          /\ inFlight' = inFlight \cup readyTasks
          /\ invokerCalls' = [t \in TaskIds |->
                 IF t \in readyTasks THEN invokerCalls[t] + 1 ELSE invokerCalls[t]]
    /\ wfPc' = "await"
    /\ UNCHANGED <<tasks, completedTasks, results, returned, produced>>
    /\ EmitProgress
    /\ UNCHANGED notWf

\* orchestrator.ts:235-237 with executeBatch 200-214 and the synchronous head
\* of executeSingleTask 111-137 of every ready task
ExecuteBatch ==
    /\ wfPc = "loop"
    /\ pendingTasks # {}
    /\ LET readyTasks == {t \in pendingTasks : areDependenciesMet(t)}
       IN /\ previousCompletedCount' = Cardinality(completedTasks)
          /\ pendingTasks' = pendingTasks \ readyTasks
          /\ events' = events \o
                 TaskEvents("running", InOrder(readyTasks))
          /\ inFlight' = readyTasks
          /\ invokerCalls' = [t \in TaskIds |->
                 IF t \in readyTasks THEN invokerCalls[t] + 1 ELSE invokerCalls[t]]
    /\ wfPc' = "await"
    /\ UNCHANGED <<tasks, completedTasks, results, returned, produced>>
    /\ EmitProgress
    /\ UNCHANGED notWf

\* an invoker that sends the request of a failed task a second time
SettleTaskRetries(t, ok) ==
    /\ wfPc = "await"
    /\ t \in inFlight
    /\ IF ~ok /\ invokerCalls[t] < 2
       THEN /\ invokerCalls' = [invokerCalls EXCEPT ![t] = @ + 1]
            /\ UNCHANGED <<inFlight, returned, produced, events>>
       ELSE /\ inFlight' = inFlight \ {t}
            /\ returned' = returned \cup {t}
            /\ produced' = (t :> TaskResult(ok, t)) @@ produced
            /\ events' = Append(events,
                   Progress("task", t, IF ok THEN "completed" ELSE "failed", 100))
            /\ UNCHANGED invokerCalls
    /\ UNCHANGED <<tasks, wfPc, pendingTasks, completedTasks, results,
                   previousCompletedCount>>
    /\ EmitProgress
    /\ UNCHANGED notWf

\* an executeSingleTask that reports success only: no event for a failed call
SettleTaskSilentFailure(t, ok) ==
    /\ wfPc = "await"
    /\ t \in inFlight
    /\ inFlight' = inFlight \ {t}
    /\ returned' = returned \cup {t}
    /\ produced' = (t :> TaskResult(ok, t)) @@ produced
    /\ events' = IF ok THEN Append(events, Progress("task", t, "completed", 100))
                 ELSE events
    /\ UNCHANGED <<tasks, wfPc, pendingTasks, completedTasks, results,
                   previousCompletedCount, invokerCalls>>
    /\ EmitProgress
    /\ UNCHANGED notWf

\* callAIAPI settles for task t (orchestrator.ts:81-101) and executeSingleTask
\* emits the terminal event and returns the result (139-152)
SettleTask(t, ok) ==
    /\ wfPc = "await"
    /\ t \in inFlight
    /\ inFlight' = inFlight \ {t}
    /\ returned' = returned \cup {t}
    /\ produced' = (t :> TaskResult(ok, t)) @@ produced
    /\ events' = Append(events,
           Progress("task", t, IF ok THEN "completed" ELSE "failed", 100))
    /\ UNCHANGED <<tasks, wfPc, pendingTasks, completedTasks, results,
                   previousCompletedCount, invokerCalls>>
    /\ EmitProgress
    /\ UNCHANGED notWf

\* the continuation without results.set
StoreResultNoSet(t) ==
    /\ wfPc = "await"
    /\ t \in returned
    /\ returned' = returned \ {t}
    /\ completedTasks' = completedTasks \cup {t}
    /\ events' = Append(events,
           AggregateProgress(t,
               OverallProgress(Cardinality(completedTasks'), totalTasks)))
    /\ UNCHANGED <<tasks, wfPc, pendingTasks, inFlight, previousCompletedCount,
                   invokerCalls, produced, results>>
    /\ EmitProgress
    /\ UNCHANGED notWf

\* a continuation that counts only successful results as completed
StoreResultOnlySuccess(t) ==
    /\ wfPc = "await"
    /\ t \in returned
    /\ returned' = returned \ {t}
    /\ results' = (t :> produced[t]) @@ results
    /\ completedTasks' = IF produced[t].success THEN completedTasks \cup {t}
                         ELSE completedTasks
    /\ events' = Append(events,
           AggregateProgress(t,
               OverallProgress(Cardinality(completedTasks'), totalTasks)))
    /\ UNCHANGED <<tasks, wfPc, pendingTasks, inFlight, previousCompletedCount,
                   invokerCalls, produced>>
    /\ EmitProgress
    /\ UNCHANGED notWf

\* the continuation of the task's promise in executeBatch, orchestrator.ts:216-228
StoreResult(t) ==
    /\ wfPc = "await"
    /\ t \in returned
    /\ returned' = returned \ {t}
    /\ results' = (t :> produced[t]) @@ results
    /\ completedTasks' = completedTasks \cup {t}
    /\ events' = Append(events,
           AggregateProgress(t,
               OverallProgress(Cardinality(completedTasks'), totalTasks)))
    /\ UNCHANGED <<tasks, wfPc, pendingTasks, inFlight, previousCompletedCount,
                   invokerCalls, produced>>
    /\ EmitProgress
    /\ UNCHANGED notWf

\* a stall branch that fails every task of the graph, not only the pending ones
BatchDoneFailsAll ==
    /\ wfPc = "await"
    /\ inFlight = {}
    /\ returned = {}
    /\ IF Cardinality(completedTasks) = previousCompletedCount /\ pendingTasks # {}
       THEN /\ results' = [t \in TaskIds |-> StallResult]
            /\ events' = events \o
                   TaskEvents("failed", InOrder(TaskIds))
            /\ wfPc' = "final"
       ELSE /\ wfPc' = "loop"
            /\ UNCHANGED <<results, events>>
    /\ UNCHANGED <<tasks, pendingTasks, completedTasks, inFlight, returned,
                   previousCompletedCount, invokerCalls, produced>>
    /\ EmitProgress
    /\ UNCHANGED notWf

\* a stall branch that fails only the first remaining task
BatchDoneFirstOnly ==
    /\ wfPc = "await"
    /\ inFlight = {}
    /\ returned = {}
    /\ IF Cardinality(completedTasks) = previousCompletedCount /\ pendingTasks # {}
       THEN LET first == CHOOSE x \in pendingTasks : \A y \in pendingTasks : x <= y
            IN /\ results' = (first :> StallResult) @@ results
               /\ events' = Append(events, Progress("task", first, "failed", 0))
               /\ wfPc' = "final"
       ELSE /\ wfPc' = "loop"
            /\ UNCHANGED <<results, events>>
    /\ UNCHANGED <<tasks, pendingTasks, completedTasks, inFlight, returned,
                   previousCompletedCount, invokerCalls, produced>>
    /\ EmitProgress
    /\ UNCHANGED notWf

\* a one-phase stall check: whatever is still pending after a batch is failed
BatchDoneStallsOnPending ==
    /\ wfPc = "await"
    /\ inFlight = {}
    /\ returned = {}
    /\ IF pendingTasks # {}
       THEN /\ results' = [t \in pendingTasks |-> StallResult] @@ results
            /\ events' = events \o
                   TaskEvents("failed", InOrder(pendingTasks))
            /\ wfPc' = "final"
       ELSE /\ wfPc' = "loop"
            /\ UNCHANGED <<results, events>>
    /\ UNCHANGED <<tasks, pendingTasks, completedTasks, inFlight, returned,
                   previousCompletedCount, invokerCalls, produced>>
    /\ EmitProgress
    /\ UNCHANGED notWf

\* Promise.all resolves (orchestrator.ts:231) and the stall check 240-259 runs
BatchDone ==
    /\ wfPc = "await"
    /\ inFlight = {}
    /\ returned = {}
    /\ IF Cardinality(completedTasks) = previousCompletedCount /\ pendingTasks # {}
       THEN /\ results' = [t \in pendingTasks |-> StallResult] @@ results
            /\ events' = events \o
                   TaskEvents("failed", InOrder(pendingTasks))
            /\ wfPc' = "final"
       ELSE /\ wfPc' = "loop"
            /\ UNCHANGED <<results, events>>
    /\ UNCHANGED <<tasks, pendingTasks, completedTasks, inFlight, returned,
                   previousCompletedCount, invokerCalls, produced>>
    /\ EmitProgress
    /\ UNCHANGED notWf

\* the loop condition of orchestrator.ts:235 is false
LoopExit ==
    /\ wfPc = "loop"
    /\ pendingTasks = {}
    /\ wfPc' = "final"
    /\ UNCHANGED <<tasks, pendingTasks, completedTasks, results, inFlight,
                   returned, previousCompletedCount, events, invokerCalls, produced>>
    /\ EmitProgress
    /\ UNCHANGED notWf

\* orchestrator.ts:262-273
FinishWorkflow ==
    /\ wfPc = "final"
    /\ events' = Append(events, Progress("workflow", 0, "completed", 100))
    /\ workflowResults' = (invocation :> results) @@ workflowResults
    /\ wfPc' = "done"
    /\ UNCHANGED <<tasks, pendingTasks, completedTasks, results, inFlight,
                   returned, previousCompletedCount, invokerCalls, produced>>
    /\ EmitProgress
    /\ UNCHANGED <<monVars, prVars, facVars, parseVars, subscribers, calls, invocation,
                   progressCallbacks>>

WfNext ==
    \/ StartWorkflow
    \/ ExecuteBatch
    \/ \E t \in TaskIds, ok \in BOOLEAN : SettleTask(t, ok)
    \/ \E t \in TaskIds : StoreResult(t)
    \/ BatchDone
    \/ LoopExit
    \/ FinishWorkflow

(* ---------------- executeWorkflow, a subscriber raises ----------------- *)
\* error text of the catch block of executeSingleTask, orchestrator.ts:154
SubscriberError == "subscriber raised"

\* the result the catch block returns, orchestrator.ts:167-171
CaughtResult == [success |-> FALSE, content |-> 0, error |-> SubscriberError]

\* the emitProgress of orchestrator.ts:185 raises: no try encloses it and the
\* promise of executeWorkflow rejects
StartWorkflowRaised ==
    /\ wfPc = "start"
    /\ Raised(Progress("workflow", 0, "running", 0))
    /\ pendingTasks' = TaskIds
    /\ events' = Append(events, Progress("workflow", 0, "running", 0))
    /\ wfPc' = "rejected"
    /\ UNCHANGED <<tasks, completedTasks, results, inFlight, returned,
                   previousCompletedCount, invokerCalls, produced>>
    /\ EmitProgressRaised
    /\ UNCHANGED notWf

\* executeBatch 200-214 when the emitProgress of line 111 raises for a ready
\* task: it stands before the try of line 120, so the promise of that task
\* rejects without a callAIAPI request, and Promise.all (231) rejects with it;
\* the ready tasks whose 'running' event raised nothing stay in flight
ExecuteBatchRaised ==
    /\ wfPc = "loop"
    /\ pendingTasks # {}
    /\ LET readyTasks == {t \in pendingTasks : areDependenciesMet(t)}
           raisedTasks == {t \in readyTasks : Raised(Progress("task", t, "running", 0))}
       IN /\ raisedTasks # {}
          /\ previousCompletedCount' = Cardinality(completedTasks)
          /\ pendingTasks' = pendingTasks \ readyTasks
          /\ events' = events \o TaskEvents("running", InOrder(readyTasks))
          /\ inFlight' = readyTasks \ raisedTasks
          /\ invokerCalls' = [t \in TaskIds |->
                 IF t \in readyTasks \ raisedTasks
                 THEN invokerCalls[t] + 1 ELSE invokerCalls[t]]
    /\ wfPc' = "rejected"
    /\ UNCHANGED <<tasks, completedTasks, results, returned, produced>>
    /\ EmitProgressRaised
    /\ UNCHANGED notWf

\* callAIAPI settles for task t and the emitProgress of line 139 raises inside
\* the try: the catch block (153-171) emits a 'failed' event with progress 0
\* and returns a failure, whatever callAIAPI produced; if that emitProgress
\* raises too the promise of the task rejects, and Promise.all with it
SettleTaskRaised(t, ok) ==
    /\ wfPc \in {"await", "rejected"}
    /\ t \in inFlight
    /\ LET terminal == Progress("task", t, IF ok THEN "completed" ELSE "failed", 100)
           caught == Progress("task", t, "failed", 0)
       IN /\ Raised(terminal)
          /\ events' = events \o <<terminal, caught>>
          /\ inFlight' = inFlight \ {t}
          /\ IF Raised(caught)
             THEN /\ wfPc' = "rejected"
                  /\ UNCHANGED <<returned, produced>>
             ELSE /\ returned' = returned \cup {t}
                  /\ produced' = (t :> CaughtResult) @@ produced
                  /\ UNCHANGED wfPc
    /\ UNCHANGED <<tasks, pendingTasks, completedTasks, results,
                   previousCompletedCount, invokerCalls>>
    /\ EmitProgressRaised
    /\ UNCHANGED notWf

\* the continuation 216-228 when the emitProgress of line 221 raises: the
\* result is stored, the promise of the task rejects, and Promise.all with it
StoreResultRaised(t) ==
    /\ wfPc \in {"await", "rejected"}
    /\ t \in returned
    /\ returned' = returned \ {t}
    /\ results' = (t :> produced[t]) @@ results
    /\ completedTasks' = completedTasks \cup {t}
    /\ LET aggregate == AggregateProgress(t,
               OverallProgress(Cardinality(completedTasks'), totalTasks))
       IN /\ Raised(aggregate)
          /\ events' = Append(events, aggregate)
    /\ wfPc' = "rejected"
    /\ UNCHANGED <<tasks, pendingTasks, inFlight, previousCompletedCount,
                   invokerCalls, produced>>
    /\ EmitProgressRaised
    /\ UNCHANGED notWf

\* the stall branch 240-259 when an emitProgress of line 249 raises: the
\* forEach of line 243 is left at the first task whose event raises, after its
\* results.set; the tasks behind it get neither a result nor an event
BatchDoneRaised ==
    /\ wfPc = "await"
    /\ inFlight = {}
    /\ returned = {}
    /\ Cardinality(completedTasks) = previousCompletedCount
    /\ pendingTasks # {}
    /\ LET remainingTasks == InOrder(pendingTasks)
           R == {i \in DOMAIN remainingTasks :
                    Raised(Progress("task", remainingTasks[i], "failed", 0))}
       IN /\ R # {}
          /\ LET k == CHOOSE i \in R : \A j \in R : i <= j
             IN /\ results' = [t \in {remainingTasks[i] : i \in 1..k} |-> StallResult]
                                  @@ results
                /\ events' = events \o
                       TaskEvents("failed", SubSeq(remainingTasks, 1, k))
    /\ wfPc' = "rejected"
    /\ UNCHANGED <<tasks, pendingTasks, completedTasks, inFlight, returned,
                   previousCompletedCount, invokerCalls, produced>>
    /\ EmitProgressRaised
    /\ UNCHANGED notWf

\* the emitProgress of line 263 raises: workflowResults.set and the return
\* (272-273) are not reached
FinishWorkflowRaised ==
    /\ wfPc = "final"
    /\ Raised(Progress("workflow", 0, "completed", 100))
    /\ events' = Append(events, Progress("workflow", 0, "completed", 100))
    /\ wfPc' = "rejected"
    /\ UNCHANGED <<tasks, pendingTasks, completedTasks, results, inFlight,
                   returned, previousCompletedCount, invokerCalls, produced>>
    /\ EmitProgressRaised
    /\ UNCHANGED notWf

\* after the promise of executeWorkflow rejected, the requests still in
\* flight settle and their promises run on: executeSingleTask 139-152
DetachedSettle(t, ok) ==
    /\ wfPc = "rejected"
    /\ t \in inFlight
    /\ inFlight' = inFlight \ {t}
    /\ returned' = returned \cup {t}
    /\ produced' = (t :> TaskResult(ok, t)) @@ produced
    /\ events' = Append(events,
           Progress("task", t, IF ok THEN "completed" ELSE "failed", 100))
    /\ UNCHANGED <<tasks, wfPc, pendingTasks, completedTasks, results,
                   previousCompletedCount, invokerCalls>>
    /\ EmitProgress
    /\ UNCHANGED notWf

\* and the continuation 216-228, on the maps nobody will be handed
DetachedStore(t) ==
    /\ wfPc = "rejected"
    /\ t \in returned
    /\ returned' = returned \ {t}
    /\ results' = (t :> produced[t]) @@ results
    /\ completedTasks' = completedTasks \cup {t}
    /\ events' = Append(events,
           AggregateProgress(t,
               OverallProgress(Cardinality(completedTasks'), totalTasks)))
    /\ UNCHANGED <<tasks, wfPc, pendingTasks, inFlight, previousCompletedCount,
                   invokerCalls, produced>>
    /\ EmitProgress
    /\ UNCHANGED notWf

RaisedNext ==
    \/ StartWorkflowRaised
    \/ ExecuteBatchRaised
    \/ \E t \in TaskIds, ok \in BOOLEAN : SettleTaskRaised(t, ok)
    \/ \E t \in TaskIds : StoreResultRaised(t)
    \/ BatchDoneRaised
    \/ FinishWorkflowRaised
    \/ \E t \in TaskIds, ok \in BOOLEAN : DetachedSettle(t, ok)
    \/ \E t \in TaskIds : DetachedStore(t)

(* ------------------------- remote job monitors ------------------------ *)
\* largest poll budget (maxPolls) of a monitor call
MaxPollBudget == 2
\* largest number of runs the CI system creates on the watched branch
MaxRuns == 2

\* setTimeout(resolve, 10000) of monitorDeployment
PollIntervalDeploy == 10000
\* POLL_INTERVAL of waitForOpenCodeCompletion
PollIntervalOpenCode == 3000
\* perPage of the listWorkflowRuns requests
PerPageDeploy == 5
PerPageOpenCode == 10

PollInterval(kind) ==
    IF kind = "deploy" THEN PollIntervalDeploy ELSE PollIntervalOpenCode

\* timeouts just above a multiple of the interval, and one exact multiple
Timeouts(kind) ==
    {(k - 1) * PollInterval(kind) + 1 : k \in 1..MaxPollBudget}
        \cup {PollInterval(kind)}

\* Math.floor(timeout / interval): a budget that drops the started interval
MaxPollsFloor(kind, t) == t \div PollInterval(kind)

\* Math.ceil(timeout / interval)
MaxPollsOf(kind, t) == (t + PollInterval(kind) - 1) \div PollInterval(kind)

Min(a, b) == IF a <= b THEN a ELSE b

(* Time is counted in half seconds. A JS string is the sequence of its code
   units; of a timestamp only the seconds and what follows them is kept, the
   part before is the same in every timestamp of the model. *)
Digit(n) == 48 + n

\* new Date(t).toISOString(): "...SS.mmmZ"
toISOString(t) ==
    LET sec == t \div 2
        ms == (t % 2) * 500
    IN <<Digit(sec \div 10), Digit(sec % 10), 46,
         Digit(ms \div 100), Digit((ms \div 10) % 10), Digit(ms % 10), 90>>

\* created_at of a run as the GitHub API prints it: "...SSZ"
CreatedAtString(t) ==
    LET sec == t \div 2 IN <<Digit(sec \div 10), Digit(sec % 10), 90>>

\* a >= b on JS strings
RECURSIVE StringGE(_, _)
StringGE(a, b) ==
    IF b = <<>> THEN TRUE
    ELSE IF a = <<>> THEN FALSE
    ELSE IF Head(a) # Head(b) THEN Head(a) > Head(b)
    ELSE StringGE(Tail(a), Tail(b))

\* the CI system: what a run of the GitHub API can be
RunNames == {"OpenCode Agent", "Deploy"}
RunConclusions == {"success", "failure", "timed_out", "cancelled"}
CreatedTimes == {1, 2}
MonitorStartTimes == {2, 3}

\* GitHubService.listWorkflowRuns: the status and conclusion of a listed run
MapStatus(run) ==
    IF run.status = "in_progress" THEN "in_progress"
    ELSE IF run.status = "queued" THEN "queued"
    ELSE IF run.conclusion = "success" THEN "completed"
    ELSE "failure"

MapConclusion(run) ==
    IF run.conclusion \in {"success", "failure", "timed_out"}
    THEN run.conclusion ELSE "null"

MapRun(id) ==
    [id |-> id,
     name |-> ciRuns[id].name,
     status |-> MapStatus(ciRuns[id]),
     conclusion |-> MapConclusion(ciRuns[id]),
     html_url |-> id,
     created_at |-> CreatedAtString(ciRuns[id].created)]

\* the runs of the branch, newest first, at most perPage of them
ListWorkflowRuns(perPage) ==
    LET n == Len(ciRuns)
    IN [i \in 1..Min(n, perPage) |-> MapRun(n + 1 - i)]

NoRun == [id |-> 0, name |-> "", status |-> "none", conclusion |-> "null",
          html_url |-> 0, created_at |-> <<>>]

\* Array.prototype.find: the first of the runs that pass the test, NoRun for
\* undefined
FirstOf(hits) == IF hits = <<>> THEN NoRun ELSE Head(hits)

isRecent(r) == StringGE(r.created_at, toISOString(startTime))

\* r.name === 'OpenCode Agent' || r.name?.toLowerCase().includes('opencode')
isCorrectWorkflow(r) == r.name \in {"OpenCode Agent"}

\* the run a monitor's filter selects in a listing, whatever it reported before
MatchingRun(runs) ==
    IF monKind = "deploy" THEN FirstOf(SelectSeq(runs, isRecent))
    ELSE FirstOf(SelectSeq(runs, LAMBDA r : isRecent(r) /\ isCorrectWorkflow(r)))

\* a run is triggered on the watched branch (the workflow of the branch that
\* monitorDeployment watches is "Deploy")
CiCreateRun(name, created) ==
    /\ monPc = "poll"
    /\ Len(ciRuns) < MaxRuns
    /\ monKind = "deploy" => name = "Deploy"
    /\ ciRuns # <<>> => ciRuns[Len(ciRuns)].created <= created
    /\ ciRuns' = Append(ciRuns, [status |-> "queued", conclusion |-> "null",
                                 created |-> created, name |-> name])
    /\ UNCHANGED <<monKind, monPc, timeout, startTime, maxPolls, pollCount,
                   lastRunId, monResult, monEvents, lastObs>>
    /\ UNCHANGED notMon

\* a run goes from queued to in_progress, or from in_progress to completed.
\* Only the runs that pass the monitor's filter are advanced: the filter reads
\* the creation time and the name, so the status of the other runs is never
\* looked at.
CiAdvanceRun(id, conclusion) ==
    /\ monPc = "poll"
    /\ id \in DOMAIN ciRuns
    /\ MatchingRun(<<MapRun(id)>>) # NoRun
    /\ \/ /\ ciRuns[id].status = "queued"
          /\ conclusion = "success"
          /\ ciRuns' = [ciRuns EXCEPT ![id].status = "in_progress"]
       \/ /\ ciRuns[id].status = "in_progress"
          /\ ciRuns' = [ciRuns EXCEPT ![id].status = "completed",
                                      ![id].conclusion = conclusion]
    /\ UNCHANGED <<monKind, monPc, timeout, startTime, maxPolls, pollCount,
                   lastRunId, monResult, monEvents, lastObs>>
    /\ UNCHANGED notMon

Responses == {"ok", "notok", "error"}

NoObservation == [resp |-> "none", run |-> NoRun]

NoResult == [success |-> FALSE, runId |-> 0, url |-> 0, status |-> "none"]

MonitorEvent(stepId, status, progress, run) ==
    [stepId |-> stepId, status |-> status, progress |-> progress,
     runId |-> run.id, runStatus |-> run.status, url |-> run.html_url]

MonInit ==
    /\ monKind \in {"deploy", "opencode"}
    /\ monPc = "poll"
    /\ timeout \in Timeouts(monKind)
    /\ startTime \in MonitorStartTimes
    /\ maxPolls = MaxPollsOf(monKind, timeout)
    /\ pollCount = 0
    /\ lastRunId = 0
    /\ monResult = NoResult
    /\ monEvents = <<>>
    /\ ciRuns = <<>>
    /\ lastObs = NoObservation

\* one iteration of the loop of monitorDeployment, part_011:795-859
MonitorDeploymentPoll(resp) ==
    /\ monKind = "deploy"
    /\ monPc = "poll"
    /\ pollCount < maxPolls
    /\ pollCount' = pollCount + 1
    /\ LET runs == IF resp = "ok" THEN ListWorkflowRuns(PerPageDeploy) ELSE <<>>
           recentRun == FirstOf(SelectSeq(runs, LAMBDA r : r.id > lastRunId /\ isRecent(r)))
       IN /\ lastObs' = [resp |-> resp, run |-> MatchingRun(runs)]
          /\ IF recentRun # NoRun
             THEN /\ lastRunId' = recentRun.id
                  /\ monEvents' = Append(monEvents,
                         MonitorEvent("monitor-deployment", "running",
                             Min(85 + (pollCount' * 10) \div maxPolls, 95), recentRun))
                  /\ IF recentRun.status = "completed" /\ recentRun.conclusion = "success"
                     THEN /\ monPc' = "returned"
                          /\ monResult' = [success |-> TRUE, runId |-> recentRun.id,
                                           url |-> recentRun.html_url,
                                           status |-> "success"]
                     ELSE IF recentRun.status = "failure" \/ recentRun.conclusion = "failure"
                     THEN /\ monPc' = "returned"
                          /\ monResult' = [success |-> FALSE, runId |-> recentRun.id,
                                           url |-> recentRun.html_url,
                                           status |-> IF recentRun.conclusion # "null"
                                                      THEN recentRun.conclusion
                                                      ELSE "failure"]
                     ELSE UNCHANGED <<monPc, monResult>>
             ELSE UNCHANGED <<lastRunId, monEvents, monPc, monResult>>
    /\ UNCHANGED <<monKind, timeout, startTime, maxPolls, ciRuns>>
    /\ UNCHANGED notMon

\* the loop of monitorDeployment ends, part_011:795 and 861
MonitorDeploymentTimeout ==
    /\ monKind = "deploy"
    /\ monPc = "poll"
    /\ ~(pollCount < maxPolls)
    /\ monPc' = "timeout"
    /\ UNCHANGED <<monKind, timeout, startTime, maxPolls, pollCount, lastRunId,
                   monResult, monEvents, ciRuns, lastObs>>
    /\ UNCHANGED notMon

\* one iteration of the loop of waitForOpenCodeCompletion, orchestrator.ts:613-697
OpenCodePoll(resp) ==
    /\ monKind = "opencode"
    /\ monPc = "poll"
    /\ pollCount < maxPolls
    /\ pollCount' = pollCount + 1
    /\ LET runs == IF resp = "ok" THEN ListWorkflowRuns(PerPageOpenCode) ELSE <<>>
           openCodeRun == FirstOf(SelectSeq(runs, LAMBDA r : isRecent(r) /\ isCorrectWorkflow(r)))
       IN /\ lastObs' = [resp |-> resp, run |-> MatchingRun(runs)]
          /\ IF openCodeRun # NoRun /\ openCodeRun.id # lastRunId
             THEN /\ lastRunId' = openCodeRun.id
                  /\ monEvents' = Append(monEvents,
                         MonitorEvent("wait-opencode",
                             IF openCodeRun.status = "completed"
                             THEN "completed" ELSE "running",
                             Min(30 + (pollCount' * 60) \div maxPolls, 90), openCodeRun))
                  /\ IF openCodeRun.status = "completed"
                     THEN /\ monPc' = "returned"
                          /\ monResult' =
                                IF openCodeRun.conclusion = "success"
                                THEN [success |-> TRUE, runId |-> openCodeRun.id,
                                      url |-> 0, status |-> "success"]
                                ELSE [success |-> FALSE, runId |-> openCodeRun.id,
                                      url |-> openCodeRun.id,
                                      status |-> openCodeRun.conclusion]
                     ELSE UNCHANGED <<monPc, monResult>>
             ELSE UNCHANGED <<lastRunId, monEvents, monPc, monResult>>
    /\ UNCHANGED <<monKind, timeout, startTime, maxPolls, ciRuns>>
    /\ UNCHANGED notMon

\* the loop of waitForOpenCodeCompletion ends, orchestrator.ts:613 and 699
OpenCodeTimeout ==
    /\ monKind = "opencode"
    /\ monPc = "poll"
    /\ ~(pollCount < maxPolls)
    /\ monPc' = "timeout"
    /\ UNCHANGED <<monKind, timeout, startTime, maxPolls, pollCount, lastRunId,
                   monResult, monEvents, ciRuns, lastObs>>
    /\ UNCHANGED notMon

MonitorNext ==
    \/ \E resp \in Responses : MonitorDeploymentPoll(resp)
    \/ MonitorDeploymentTimeout
    \/ \E resp \in Responses : OpenCodePoll(resp)
    \/ OpenCodeTimeout

CiNext ==
    \/ \E name \in RunNames, created \in CreatedTimes : CiCreateRun(name, created)
    \/ \E id \in 1..MaxRuns, c \in RunConclusions : CiAdvanceRun(id, c)

MonNext == MonitorNext \/ CiNext

\* no monitor call is under way
MonIdle ==
    /\ monKind = "none"
    /\ monPc = "idle"
    /\ timeout = 0
    /\ startTime = 0
    /\ maxPolls = 0
    /\ pollCount = 0
    /\ lastRunId = 0
    /\ monResult = NoResult
    /\ monEvents = <<>>
    /\ ciRuns = <<>>
    /\ lastObs = NoObservation

\* no executeWorkflow call is under way
WfIdle ==
    /\ tasks = <<>>
    /\ wfPc = "idle"
    /\ pendingTasks = {}
    /\ completedTasks = {}
    /\ results = <<>>
    /\ inFlight = {}
    /\ returned = {}
    /\ previousCompletedCount = 0
    /\ events = <<>>
    /\ invokerCalls = <<>>
    /\ produced = <<>>

(* ---------------------- pull-request lifecycle ------------------------ *)
\* largest length of the CodeChange list
MaxChanges == 2

\* the CodeChange lists: change i of a list is named by its position
ChangeLists == {[i \in 1..n |-> i] : n \in 0..MaxChanges}

\* a fetch('/api/github') request of the lifecycle, and its response
Call(action, change) ==
    [kind |-> "call", action |-> action, change |-> change, resp |-> "none"]

Response(action, change, resp) ==
    [kind |-> "response", action |-> action, change |-> change, resp |-> resp]

\* what the commit action of the route can answer besides Responses:
\* commitChanges catches every error and returns { success: false }
\* (github.ts:249-254, 317-323), which the route sends with
\* NextResponse.json(commit), status 200 (part_007:43-50)
OkFailure == "okFailure"

\* response.ok of a settled fetch
HttpOk(resp) == resp \in {"ok", OkFailure}

\* a progress event of the lifecycle; idx is the i of `commit-file-${i}`
PrEvent(stepId, idx, status) == [stepId |-> stepId, idx |-> idx, status |-> status]

NoDeployment ==
    [success |-> FALSE, workflowRunId |-> 0, status |-> "undefined", merged |-> FALSE]

\* the DeploymentResult monitorDeployment returned, part_011:834-849
DeploymentOf(r) ==
    [success |-> r.success, workflowRunId |-> r.runId, status |-> r.status,
     merged |-> FALSE]

\* pullRequestUrl: 0 is undefined, 1 is prData.pullRequest.url
NoPrResult == [success |-> FALSE, pullRequestUrl |-> 0, deploymentResult |-> NoDeployment]

\* the state after part_011:489-490 and 501-502
PrInit ==
    /\ prPc = "start"
    /\ canCommitToGitHub \in BOOLEAN
    /\ changes \in ChangeLists
    /\ developSuccess \in BOOLEAN
    \* a failed task result has content '' (part_011:93-100, 164-170), and
    \* parseCodeChanges('') is the empty list
    /\ (~developSuccess => changes = <<>>)
    /\ commitIdx = 0
    /\ remoteLog = <<>>
    /\ prEvents = <<>>
    /\ prResult = NoPrResult

\* the outer catch, part_011:757-773
GitHubOperationFailed(log) ==
    /\ remoteLog' = log
    /\ prEvents' = Append(prEvents, PrEvent("github-error", -1, "failed"))
    /\ prResult' = [success |-> FALSE, pullRequestUrl |-> 0,
                    deploymentResult |-> NoDeployment]
    /\ prPc' = "done"
    /\ UNCHANGED <<canCommitToGitHub, changes, developSuccess, commitIdx>>
    /\ UNCHANGED <<wfVars, monVars, facVars, parseVars, orchVars, swVars>>

\* the inner catch, part_011:739-755
DeploymentMonitoringFailed(log) ==
    /\ remoteLog' = log
    /\ prEvents' = Append(prEvents, PrEvent("monitor-deployment", -1, "failed"))
    /\ prResult' = [success |-> developSuccess, pullRequestUrl |-> 1,
                    deploymentResult |-> NoDeployment]
    /\ prPc' = "done"
    /\ UNCHANGED <<canCommitToGitHub, changes, developSuccess, commitIdx>>
    /\ UNCHANGED <<wfVars, facVars, parseVars, orchVars, swVars>>

\* a gate that looks at the configuration only, not at the changes
PrBeginGateIgnoresChanges ==
    /\ prPc = "start"
    /\ IF canCommitToGitHub
       THEN /\ prEvents' = Append(prEvents, PrEvent("create-branch", -1, "running"))
            /\ remoteLog' = Append(remoteLog, Call("createBranch", 0))
            /\ prPc' = "createBranch"
            /\ UNCHANGED prResult
       ELSE /\ prEvents' = Append(prEvents, PrEvent("create-branch", -1, "running"))
            /\ prResult' = [success |-> developSuccess, pullRequestUrl |-> 0,
                            deploymentResult |-> NoDeployment]
            /\ prPc' = "done"
            /\ UNCHANGED remoteLog
    /\ UNCHANGED <<canCommitToGitHub, changes, developSuccess, commitIdx>>
    /\ UNCHANGED <<wfVars, monVars, facVars, parseVars, orchVars, swVars>>

\* part_011:492-516, and 776-780 when nothing is committed
PrBegin ==
    /\ prPc = "start"
    /\ IF canCommitToGitHub /\ Len(changes) > 0
       THEN /\ prEvents' = Append(prEvents, PrEvent("create-branch", -1, "running"))
            /\ remoteLog' = Append(remoteLog, Call("createBranch", 0))
            /\ prPc' = "createBranch"
            /\ UNCHANGED prResult
       ELSE /\ prEvents' = Append(prEvents, PrEvent("create-branch", -1, "running"))
            /\ prResult' = [success |-> developSuccess, pullRequestUrl |-> 0,
                            deploymentResult |-> NoDeployment]
            /\ prPc' = "done"
            /\ UNCHANGED remoteLog
    /\ UNCHANGED <<canCommitToGitHub, changes, developSuccess, commitIdx>>
    /\ UNCHANGED <<wfVars, monVars, facVars, parseVars, orchVars, swVars>>

\* the createBranch request settles, part_011:518-569: on ok the first
\* iteration of the commit loop issues its request
PrBranchResponse(resp) ==
    /\ prPc = "createBranch"
    /\ LET log == Append(remoteLog, Response("createBranch", 0, resp))
       IN IF resp = "ok"
          THEN /\ prEvents' = prEvents \o
                      <<PrEvent("create-branch", -1, "completed"),
                        PrEvent("commit-files", -1, "running"),
                        PrEvent("commit-file", 0, "running")>>
               /\ commitIdx' = 0
               /\ remoteLog' = Append(log, Call("commit", changes[1]))
               /\ prPc' = "commit"
               /\ UNCHANGED <<canCommitToGitHub, changes, developSuccess, prResult>>
               /\ UNCHANGED <<wfVars, monVars, facVars, parseVars, orchVars, swVars>>
          ELSE GitHubOperationFailed(log)

\* a commit loop that goes on to the next file after a failed commit
PrCommitResponseSkipsFailure(resp) ==
    /\ prPc = "commit"
    /\ LET i == commitIdx
           log == Append(remoteLog, Response("commit", changes[i + 1], resp))
       IN IF i + 1 < Len(changes)
          THEN /\ prEvents' = prEvents \o
                      <<PrEvent("commit-file", i, "completed"),
                        PrEvent("commit-file", i + 1, "running")>>
               /\ commitIdx' = i + 1
               /\ remoteLog' = Append(log, Call("commit", changes[i + 2]))
               /\ prPc' = "commit"
          ELSE /\ prEvents' = prEvents \o
                      <<PrEvent("commit-file", i, "completed"),
                        PrEvent("commit-files", -1, "completed"),
                        PrEvent("create-pr", -1, "running")>>
               /\ commitIdx' = i + 1
               /\ remoteLog' = Append(log, Call("createPR", 0))
               /\ prPc' = "createPR"
    /\ UNCHANGED <<canCommitToGitHub, changes, developSuccess, prResult>>
    /\ UNCHANGED <<wfVars, monVars, facVars, parseVars, orchVars, swVars>>

\* the commit request of changes[i] settles, part_011:571-615: on ok the loop
\* goes on with changes[i + 1], and after the last change createPR is requested
PrCommitResponse(resp) ==
    /\ prPc = "commit"
    /\ LET i == commitIdx
           log == Append(remoteLog, Response("commit", changes[i + 1], resp))
       IN IF ~HttpOk(resp)
          THEN GitHubOperationFailed(log)
          ELSE /\ IF i + 1 < Len(changes)
                  THEN /\ prEvents' = prEvents \o
                              <<PrEvent("commit-file", i, "completed"),
                                PrEvent("commit-file", i + 1, "running")>>
                       /\ commitIdx' = i + 1
                       /\ remoteLog' = Append(log, Call("commit", changes[i + 2]))
                       /\ prPc' = "commit"
                  ELSE /\ prEvents' = prEvents \o
                              <<PrEvent("commit-file", i, "completed"),
                                PrEvent("commit-files", -1, "completed"),
                                PrEvent("create-pr", -1, "running")>>
                       /\ commitIdx' = i + 1
                       /\ remoteLog' = Append(log, Call("createPR", 0))
                       /\ prPc' = "createPR"
               /\ UNCHANGED <<canCommitToGitHub, changes, developSuccess, prResult>>
               /\ UNCHANGED <<wfVars, monVars, facVars, parseVars, orchVars, swVars>>

\* the timeout of a monitor call that passes none (the defaults of 15 and of
\* 30 minutes, part_011:788 and orchestrator.ts:598), cut down to a timeout
\* that gives the largest poll budget of the model
DefaultTimeout(kind) == (MaxPollBudget - 1) * PollInterval(kind) + 1

\* the first statements of a monitor call: monitorDeployment part_011:790-793,
\* waitForOpenCodeCompletion orchestrator.ts:607-611
StartMonitor(kind) ==
    /\ monKind' = kind
    /\ monPc' = "poll"
    /\ timeout' = DefaultTimeout(kind)
    /\ startTime' \in MonitorStartTimes
    /\ maxPolls' = MaxPollsOf(kind, timeout')
    /\ pollCount' = 0
    /\ lastRunId' = 0
    /\ monResult' = NoResult
    /\ monEvents' = <<>>
    /\ ciRuns' = <<>>
    /\ lastObs' = NoObservation

\* a lifecycle that starts the monitor whatever the createPR response was
PrCreatePRResponseAnyResponse(resp) ==
    /\ prPc = "createPR"
    /\ remoteLog' = Append(remoteLog, Response("createPR", 0, resp))
    /\ prEvents' = prEvents \o
           <<PrEvent("create-pr", -1, "completed"),
             PrEvent("monitor-deployment", -1, "running")>>
    /\ StartMonitor("deploy")
    /\ prPc' = "monitor"
    /\ UNCHANGED <<canCommitToGitHub, changes, developSuccess,
                   commitIdx, prResult>>
    /\ UNCHANGED <<wfVars, facVars, parseVars, orchVars, swVars>>

\* the createPR request settles, part_011:617-654: on ok monitorDeployment is
\* called
PrCreatePRResponse(resp) ==
    /\ prPc = "createPR"
    /\ LET log == Append(remoteLog, Response("createPR", 0, resp))
       IN IF resp = "ok"
          THEN /\ remoteLog' = log
               /\ prEvents' = prEvents \o
                      <<PrEvent("create-pr", -1, "completed"),
                        PrEvent("monitor-deployment", -1, "running")>>
               /\ StartMonitor("deploy")
               /\ prPc' = "monitor"
               /\ UNCHANGED <<canCommitToGitHub, changes, developSuccess,
                              commitIdx, prResult>>
               /\ UNCHANGED <<wfVars, facVars, parseVars, orchVars, swVars>>
          ELSE GitHubOperationFailed(log)

\* monitorDeployment returned, part_011:656-688 and 721-738
PrMonitorReturned ==
    /\ prPc = "monitor"
    /\ monPc = "returned"
    /\ IF monResult.success
       THEN /\ prEvents' = prEvents \o
                   <<PrEvent("monitor-deployment", -1, "completed"),
                     PrEvent("merge-pr", -1, "running")>>
            /\ remoteLog' = Append(remoteLog, Call("mergePR", 0))
            /\ prPc' = "mergePR"
            /\ UNCHANGED prResult
       ELSE /\ prEvents' = Append(prEvents,
                   PrEvent("monitor-deployment", -1, "failed"))
            /\ prResult' = [success |-> FALSE, pullRequestUrl |-> 1,
                            deploymentResult |-> DeploymentOf(monResult)]
            /\ prPc' = "done"
            /\ UNCHANGED remoteLog
    /\ UNCHANGED <<canCommitToGitHub, changes, developSuccess, commitIdx>>
    /\ UNCHANGED <<wfVars, monVars, facVars, parseVars, orchVars, swVars>>

\* monitorDeployment threw its timeout error, part_011:861 and 739-755
PrMonitorThrew ==
    /\ prPc = "monitor"
    /\ monPc = "timeout"
    /\ DeploymentMonitoringFailed(remoteLog)
    /\ UNCHANGED monVars

\* the mergePR request settles, part_011:690-720; a rejected fetch is caught
\* by the catch of the monitor stage, 739-755
PrMergeResponse(resp, merged) ==
    /\ prPc = "mergePR"
    /\ resp # "ok" => ~merged
    /\ LET log == Append(remoteLog, Response("mergePR", 0, resp))
       IN IF resp = "error"
          THEN DeploymentMonitoringFailed(log)
          ELSE /\ remoteLog' = log
               /\ prEvents' = Append(prEvents,
                      PrEvent("merge-pr", -1,
                              IF resp = "ok" THEN "completed" ELSE "failed"))
               /\ prResult' = [success |-> developSuccess, pullRequestUrl |-> 1,
                               deploymentResult |->
                                   [DeploymentOf(monResult) EXCEPT !.merged = merged]]
               /\ prPc' = "done"
               /\ UNCHANGED <<canCommitToGitHub, changes, developSuccess, commitIdx>>
               /\ UNCHANGED <<wfVars, facVars, parseVars, orchVars, swVars>>
    /\ UNCHANGED monVars

PrNext ==
    \/ PrBegin
    \/ \E resp \in Responses : PrBranchResponse(resp)
    \/ \E resp \in Responses : PrCommitResponse(resp)
    \/ \E resp \in Responses : PrCreatePRResponse(resp)
    \/ PrMonitorReturned
    \/ PrMonitorThrew
    \/ \E resp \in Responses, merged \in BOOLEAN : PrMergeResponse(resp, merged)

\* no executeGitHubWorkflow call is under way
PrIdle ==
    /\ prPc = "idle"
    /\ canCommitToGitHub = FALSE
    /\ changes = <<>>
    /\ developSuccess = FALSE
    /\ commitIdx = 0
    /\ remoteLog = <<>>
    /\ prEvents = <<>>
    /\ prResult = NoPrResult

(* -------------------------- workflow facades -------------------------- *)
\* tasks of MultiAgentOrchestrator.executeNewsWorkflow, orchestrator.ts:288-313:
\* research = 1, summarize = 2 (depends on research), translate = 3 (depends
\* on summarize)
NewsGraph == <<{}, {1}, {2}>>

\* a Message of the swarm: who sent it, its type and what it says
Message(from, type, text) == [from |-> from, type |-> type, text |-> text]

NoFacadeResult == [kind |-> "none"]

\* the NewsSummary of executeSimulatedNewsWorkflow, swarm.ts:392-396
SimulatedNewsResult ==
    [kind |-> "NewsSummary",
     original |-> "scripted summary",
     translated |-> "scripted translation",
     articles |-> {"Tech News", "Medical Today"}]

\* the result of executeSimulatedGitHubWorkflow, swarm.ts:551; changes are
\* listed by path and pullRequestUrl 0 is undefined
SimulatedGitHubResult ==
    [kind |-> "GitHubResult",
     success |-> TRUE,
     changes |-> <<"src/App.tsx">>,
     pullRequestUrl |-> 0]

\* the NewsSummary of orchestrator.ts:333-337; articles holds the source of
\* every article parseArticles found in the research content
RealNewsResult(articles) ==
    [kind |-> "NewsSummary",
     original |-> IF results[2].content # 0 THEN "content of summarize"
                  ELSE "Summary generation failed",
     translated |-> IF results[3].content # 0 THEN "content of translate"
                    ELSE "Translation failed",
     articles |-> articles]

\* what the facade returns of the result of orchestrator.ts:540-554,
\* swarm.ts:473-477
RealGitHubResult(url) ==
    [kind |-> "GitHubResult", success |-> TRUE, changes |-> <<>>,
     pullRequestUrl |-> url]

\* a step event of the OpenCode path of executeGitHubWorkflow
StepEvent(stepId, status) == [stepId |-> stepId, status |-> status]

\* the state at the entry of a facade, swarm.ts:230 and 414
FacadeInit ==
    /\ facKind \in {"news", "github"}
    /\ facPc = "start"
    /\ realPc = "idle"
    /\ realResult = NoFacadeResult
    /\ ghEvents = <<>>
    /\ messages = <<>>
    /\ catches = 0
    /\ fallbackRuns = 0
    /\ facResult = NoFacadeResult

\* AgentSwarm.executeNewsWorkflow up to its call of the orchestrator,
\* swarm.ts:231-278 (createTask, the status of pm-1, the onProgress
\* subscription), and executeNewsWorkflow up to its call of executeWorkflow,
\* orchestrator.ts:281-316 with 179-182
FacadeCallNews ==
    /\ facKind = "news"
    /\ facPc = "start"
    /\ messages' = Append(messages, Message("pm-1", "system", "workflow started"))
    /\ facPc' = "real"
    /\ realPc' = "workflow"
    /\ tasks' = NewsGraph
    /\ wfPc' = "start"
    /\ invokerCalls' = [t \in DOMAIN NewsGraph |-> 0]
    /\ UNCHANGED <<pendingTasks, completedTasks, results, inFlight, returned,
                   previousCompletedCount, events, produced>>
    /\ UNCHANGED <<facKind, realResult, ghEvents, catches, fallbackRuns, facResult>>
    /\ mainTasks' = (invocation :> [status |-> "in_progress", progress |-> 0])
                        @@ mainTasks
    /\ agents' = [agents EXCEPT ![PmAgent] = "idle"]
    /\ progressCallbacks' = Append(progressCallbacks, invocation)
    /\ UNCHANGED <<invocation, workflowResults>>
    /\ UNCHANGED <<monVars, prVars, parseVars, orchVars>>

\* a test that takes one failed task for a failed workflow
NewsWorkflowSettlesAnyFailed(articles) ==
    /\ realPc = "workflow"
    /\ facKind = "news"
    /\ wfPc = "done"
    /\ LET anyFailed == \/ ~results[1].success
                        \/ ~results[2].success
                        \/ ~results[3].success
       IN /\ articles # {} => results[1].content # 0
          /\ IF anyFailed
             THEN /\ realPc' = "threw"
                  /\ UNCHANGED realResult
             ELSE /\ realPc' = "returned"
                  /\ realResult' = RealNewsResult(articles)
    /\ UNCHANGED <<facKind, facPc, ghEvents, messages, catches, fallbackRuns,
                   facResult>>
    /\ UNCHANGED <<wfVars, monVars, prVars, parseVars, orchVars, swVars>>

\* executeWorkflow returned to executeNewsWorkflow, orchestrator.ts:319-337
NewsWorkflowSettles(articles) ==
    /\ realPc = "workflow"
    /\ facKind = "news"
    /\ wfPc = "done"
    /\ LET allFailed == /\ ~results[1].success
                        /\ ~results[2].success
                        /\ ~results[3].success
       IN /\ articles # {} => results[1].content # 0
          /\ IF allFailed
             THEN /\ realPc' = "threw"
                  /\ UNCHANGED realResult
             ELSE /\ realPc' = "returned"
                  /\ realResult' = RealNewsResult(articles)
    /\ UNCHANGED <<facKind, facPc, ghEvents, messages, catches, fallbackRuns,
                   facResult>>
    /\ UNCHANGED <<wfVars, monVars, prVars, parseVars, orchVars, swVars>>

\* AgentSwarm.executeGitHubWorkflow up to its call of the orchestrator,
\* swarm.ts:415-456 (createTask, the onProgress subscription), and
\* executeGitHubWorkflow up to the callAIAPI request of the analysis,
\* orchestrator.ts:384-418; its 'analyze-task' events carry the agentId pm-1
\* and every other step event the agentId 'system'
FacadeCallGitHub ==
    /\ facKind = "github"
    /\ facPc = "start"
    /\ messages' = Append(messages, Message("pm-1", "system", "workflow started"))
    /\ facPc' = "real"
    /\ realPc' = "analyze"
    /\ ghEvents' = Append(ghEvents, StepEvent("analyze-task", "running"))
    /\ UNCHANGED <<facKind, realResult, catches, fallbackRuns, facResult>>
    /\ mainTasks' = (invocation :> [status |-> "in_progress", progress |-> 0])
                        @@ mainTasks
    /\ agents' = [agents EXCEPT ![PmAgent] = "working"]
    /\ progressCallbacks' = Append(progressCallbacks, invocation)
    /\ UNCHANGED <<invocation, workflowResults>>
    /\ UNCHANGED <<wfVars, monVars, prVars, parseVars, orchVars>>

\* the catch of executeGitHubWorkflow, orchestrator.ts:556-587
OpenCodeWorkflowFailed(evs) ==
    /\ ghEvents' = Append(evs, StepEvent("error", "failed"))
    /\ realPc' = "threw"
    /\ UNCHANGED <<facKind, facPc, realResult, messages, catches, fallbackRuns,
                   facResult>>
    /\ UNCHANGED <<wfVars, prVars, parseVars, orchVars, swVars>>

\* the analysis request settles, orchestrator.ts:420-454
AnalysisSettles(ok) ==
    /\ realPc = "analyze"
    /\ IF ok
       THEN /\ ghEvents' = ghEvents \o
                   <<StepEvent("analyze-task", "completed"),
                     StepEvent("trigger-workflow", "running")>>
            /\ realPc' = "trigger"
            /\ UNCHANGED <<facKind, facPc, realResult, messages, catches,
                           fallbackRuns, facResult>>
            /\ agents' = [agents EXCEPT ![PmAgent] = "idle"]
            /\ UNCHANGED <<invocation, progressCallbacks, workflowResults,
                           mainTasks>>
            /\ UNCHANGED <<wfVars, prVars, parseVars, orchVars>>
       ELSE OpenCodeWorkflowFailed(ghEvents)
    /\ UNCHANGED monVars

\* the triggerOpenCode request settles, orchestrator.ts:456-493: success is
\* triggerData.success of an ok response
TriggerSettles(resp, success) ==
    /\ realPc = "trigger"
    /\ resp # "ok" => ~success
    /\ IF resp = "ok" /\ success
       THEN /\ ghEvents' = ghEvents \o
                   <<StepEvent("trigger-workflow", "completed"),
                     StepEvent("wait-opencode", "running")>>
            /\ StartMonitor("opencode")
            /\ realPc' = "wait"
            /\ UNCHANGED <<facKind, facPc, realResult, messages, catches,
                           fallbackRuns, facResult>>
            /\ UNCHANGED <<wfVars, prVars, parseVars, orchVars, swVars>>
       ELSE /\ OpenCodeWorkflowFailed(ghEvents)
            /\ UNCHANGED monVars

\* waitForOpenCodeCompletion returned, orchestrator.ts:495-526
OpenCodeReturned ==
    /\ realPc = "wait"
    /\ monPc = "returned"
    /\ IF monResult.success
       THEN /\ ghEvents' = Append(ghEvents, StepEvent("get-pr", "running"))
            /\ realPc' = "get-pr"
            /\ UNCHANGED <<facKind, facPc, realResult, messages, catches,
                           fallbackRuns, facResult>>
            /\ UNCHANGED <<wfVars, prVars, parseVars, orchVars, swVars>>
       ELSE OpenCodeWorkflowFailed(
                Append(ghEvents, StepEvent("wait-opencode", "failed")))
    /\ UNCHANGED monVars

\* waitForOpenCodeCompletion threw its timeout error, orchestrator.ts:699
OpenCodeThrew ==
    /\ realPc = "wait"
    /\ monPc = "timeout"
    /\ OpenCodeWorkflowFailed(ghEvents)
    /\ UNCHANGED monVars

\* getOpenCodePullRequest settles, orchestrator.ts:522-554: url is 0 when it
\* returned null (no pull request found, non-OK response or caught error)
PullRequestSettles(url) ==
    /\ realPc = "get-pr"
    /\ ghEvents' = Append(ghEvents, StepEvent("complete", "completed"))
    /\ realResult' = RealGitHubResult(url)
    /\ realPc' = "returned"
    /\ UNCHANGED <<facKind, facPc, messages, catches, fallbackRuns, facResult>>
    /\ UNCHANGED <<wfVars, monVars, prVars, parseVars, orchVars, swVars>>

\* the real call path returned to the facade, swarm.ts:278-291 and 456-477,
\* with completeTask (198-218) of the main task, which has no assigned agent
FacadeReturns ==
    /\ facKind \in {"news", "github"}
    /\ facPc = "real"
    /\ realPc = "returned"
    /\ messages' = Append(messages, Message("pm-1", "result", "workflow completed"))
    /\ facResult' = realResult
    /\ facPc' = "resolved"
    /\ UNCHANGED <<facKind, realPc, realResult, ghEvents, catches, fallbackRuns>>
    /\ mainTasks' = [mainTasks EXCEPT ![invocation] =
                         [status |-> "completed", progress |-> 100]]
    /\ UNCHANGED <<invocation, progressCallbacks, workflowResults, agents>>
    /\ UNCHANGED <<wfVars, monVars, prVars, parseVars, orchVars>>

\* a catch that reports the failure and resolves without the scripted fallback
FacadeCatchesNoFallback ==
    /\ facPc = "real"
    /\ realPc = "threw"
    /\ catches' = catches + 1
    /\ messages' = Append(messages, Message("pm-1", "system", "workflow failed"))
    /\ facResult' = NoFacadeResult
    /\ facPc' = "resolved"
    /\ UNCHANGED <<facKind, realPc, realResult, ghEvents, fallbackRuns>>
    /\ UNCHANGED <<wfVars, monVars, prVars, parseVars, orchVars, swVars>>

\* the real call path threw into the catch of the facade, which starts the
\* scripted fallback, swarm.ts:292-305 and 478-490
FacadeCatches ==
    /\ facPc = "real"
    /\ realPc = "threw"
    /\ catches' = catches + 1
    /\ messages' = Append(messages, Message("pm-1", "system", "workflow failed"))
    /\ fallbackRuns' = fallbackRuns + 1
    /\ facPc' = "fallback"
    /\ UNCHANGED <<facKind, realPc, realResult, ghEvents, facResult>>
    /\ UNCHANGED <<wfVars, monVars, prVars, parseVars, orchVars, swVars>>

\* executeSimulatedNewsWorkflow (swarm.ts:309-410) or
\* executeSimulatedGitHubWorkflow (494-552) runs to its end: every agent it
\* assigned a task to is idle again and the main task is completed
FallbackCompletes ==
    /\ facPc = "fallback"
    /\ messages' = messages \o
           IF facKind = "news"
           THEN <<Message("researcher-1", "task", "simulated mode"),
                  Message("writer-1", "task", "simulated mode"),
                  Message("translator-1", "task", "simulated mode"),
                  Message("pm-1", "result", "completed (simulated mode)")>>
           ELSE <<Message("analyst-1", "task", "simulated mode"),
                  Message("dev-1", "task", "simulated mode"),
                  Message("pm-1", "result", "completed (simulated mode)")>>
    /\ facResult' = IF facKind = "news" THEN SimulatedNewsResult
                    ELSE SimulatedGitHubResult
    /\ facPc' = "resolved"
    /\ UNCHANGED <<facKind, realPc, realResult, ghEvents, catches, fallbackRuns>>
    /\ mainTasks' = [mainTasks EXCEPT ![invocation] =
                         [status |-> "completed", progress |-> 100]]
    /\ agents' = IF facKind = "news"
                 THEN [a \in AgentIds |-> IF a \in {1, 2, 3} THEN "idle" ELSE agents[a]]
                 ELSE agents
    /\ UNCHANGED <<invocation, progressCallbacks, workflowResults>>
    /\ UNCHANGED <<wfVars, monVars, prVars, parseVars, orchVars>>

\* the article sources parseArticles can give: none, or 'AI Research'
ArticleSources == {{}, {"AI Research"}}

FacadeNext ==
    \/ FacadeCallNews
    \/ \E articles \in ArticleSources : NewsWorkflowSettles(articles)
    \/ FacadeCallGitHub
    \/ \E ok \in BOOLEAN : AnalysisSettles(ok)
    \/ \E resp \in Responses, success \in BOOLEAN : TriggerSettles(resp, success)
    \/ OpenCodeReturned
    \/ OpenCodeThrew
    \/ \E url \in {0, 1} : PullRequestSettles(url)
    \/ FacadeReturns
    \/ FacadeCatches
    \/ FallbackCompletes

\* no facade call is under way
FacadeIdle ==
    /\ facKind = "none"
    /\ facPc = "idle"
    /\ realPc = "idle"
    /\ realResult = NoFacadeResult
    /\ ghEvents = <<>>
    /\ messages = <<>>
    /\ catches = 0
    /\ fallbackRuns = 0
    /\ facResult = NoFacadeResult

\* the id 'plan' of the pm task of executeGeneralWorkflow, orchestrator.ts:769-775;
\* the task is run by executeSingleTask alone and is no task of the graph
PlanId == 0

\* tasks of executeGeneralWorkflow, orchestrator.ts:789-806: research = 1
\* (depends on 'plan'), execute = 2 (depends on research)
GeneralGraph == <<{PlanId}, {1}>>

\* a progress event of the plan task, whose agent is pm-1
PlanProgress(status, progress) ==
    [Progress("task", PlanId, status, progress) EXCEPT !.agentId = PmAgent]

\* the state at the entry of executeGeneralTask, swarm.ts:555
GeneralInit ==
    /\ facKind = "general"
    /\ facPc = "start"
    /\ realPc = "idle"
    /\ realResult = NoFacadeResult
    /\ ghEvents = <<>>
    /\ messages = <<>>
    /\ catches = 0
    /\ fallbackRuns = 0
    /\ facResult = NoFacadeResult

\* AgentSwarm.executeGeneralTask up to its call of the orchestrator,
\* swarm.ts:556-569, and executeGeneralWorkflow up to the callAIAPI request of
\* the plan task, orchestrator.ts:762-777 with executeSingleTask 111-137
FacadeCallGeneral ==
    /\ facKind = "general"
    /\ facPc = "start"
    /\ messages' = Append(messages, Message("pm-1", "system", "task started"))
    /\ mainTasks' = (invocation :> [status |-> "in_progress", progress |-> 0])
                        @@ CallEach([agents |-> agents, tasks |-> mainTasks], 1,
                                    PlanProgress("running", 0)).tasks
    /\ agents' = CallEach([agents |-> agents, tasks |-> mainTasks], 1,
                          PlanProgress("running", 0)).agents
    /\ events' = Append(events, PlanProgress("running", 0))
    /\ facPc' = "real"
    /\ realPc' = "plan"
    /\ UNCHANGED <<tasks, wfPc, pendingTasks, completedTasks, results, inFlight,
                   returned, previousCompletedCount, invokerCalls, produced>>
    /\ UNCHANGED <<facKind, realResult, ghEvents, catches, fallbackRuns, facResult>>
    /\ UNCHANGED <<invocation, progressCallbacks, workflowResults>>
    /\ UNCHANGED <<monVars, prVars, parseVars, orchVars>>

\* the value executeGeneralWorkflow returns, orchestrator.ts:779-785 and 811-815
GeneralResult(success, tasksCompleted) ==
    [kind |-> "GeneralResult", success |-> success, tasksCompleted |-> tasksCompleted]

\* the callAIAPI request of the plan task settles, orchestrator.ts:139-152 and
\* 777-808: a failed plan returns, a successful one calls executeWorkflow
\* (179-182) with the tasks research and execute
PlanSettles(ok) ==
    /\ realPc = "plan"
    /\ events' = Append(events,
           PlanProgress(IF ok THEN "completed" ELSE "failed", 100))
    /\ EmitProgress
    /\ IF ok
       THEN /\ realPc' = "workflow"
            /\ tasks' = GeneralGraph
            /\ wfPc' = "start"
            /\ invokerCalls' = [t \in DOMAIN GeneralGraph |-> 0]
            /\ UNCHANGED realResult
       ELSE /\ realPc' = "returned"
            /\ realResult' = GeneralResult(FALSE, 0)
            /\ UNCHANGED <<tasks, wfPc, invokerCalls>>
    /\ UNCHANGED <<pendingTasks, completedTasks, results, inFlight, returned,
                   previousCompletedCount, produced>>
    /\ UNCHANGED <<facKind, facPc, ghEvents, messages, catches, fallbackRuns,
                   facResult>>
    /\ UNCHANGED <<invocation, progressCallbacks, workflowResults>>
    /\ UNCHANGED <<monVars, prVars, parseVars, orchVars>>

\* executeWorkflow returned to executeGeneralWorkflow, orchestrator.ts:808-815
GeneralWorkflowSettles ==
    /\ realPc = "workflow"
    /\ facKind = "general"
    /\ wfPc = "done"
    /\ realResult' = GeneralResult(
           2 \in DOMAIN results /\ results[2].success,
           Cardinality({t \in DOMAIN results : results[t].success}))
    /\ realPc' = "returned"
    /\ UNCHANGED <<facKind, facPc, ghEvents, messages, catches, fallbackRuns,
                   facResult>>
    /\ UNCHANGED <<wfVars, monVars, prVars, parseVars, orchVars, swVars>>

\* executeGeneralWorkflow returned to executeGeneralTask, swarm.ts:569-571,
\* with completeTask (198-218) of the main task
GeneralFacadeReturns ==
    /\ facKind = "general"
    /\ facPc = "real"
    /\ realPc = "returned"
    /\ facResult' = realResult
    /\ facPc' = "resolved"
    /\ mainTasks' = [mainTasks EXCEPT ![invocation] =
                         [status |-> "completed", progress |-> 100]]
    /\ UNCHANGED <<facKind, realPc, realResult, ghEvents, messages, catches,
                   fallbackRuns>>
    /\ UNCHANGED <<invocation, progressCallbacks, workflowResults, agents>>
    /\ UNCHANGED <<wfVars, monVars, prVars, parseVars, orchVars>>

\* a new AgentSwarm, swarm.ts:71-112, at its first facade call; nothing but
\* the swarm subscribes to its orchestrator
SwarmInit ==
    /\ invocation = 1
    /\ progressCallbacks = <<>>
    /\ workflowResults = <<>>
    /\ agents = [a \in AgentIds |-> "idle"]
    /\ mainTasks = <<>>
    /\ subscribers = <<>>
    /\ received = <<>>
    /\ calls = <<>>

\* largest number of facade calls made on one AgentSwarm
MaxInvocations == 2

\* the caller of a resolved facade call calls a facade (kind) again on the
\* same AgentSwarm (getAgentSwarm, swarm.ts:589-596): the locals of the call
\* before are gone, the fields of the swarm and of its orchestrator are kept
NextInvocation(kind) ==
    /\ facPc = "resolved"
    /\ invocation < MaxInvocations
    /\ invocation' = invocation + 1
    /\ facKind' = kind
    /\ facPc' = "start"
    /\ realPc' = "idle"
    /\ realResult' = NoFacadeResult
    /\ facResult' = NoFacadeResult
    /\ tasks' = <<>>
    /\ wfPc' = "idle"
    /\ pendingTasks' = {}
    /\ completedTasks' = {}
    /\ results' = <<>>
    /\ inFlight' = {}
    /\ returned' = {}
    /\ previousCompletedCount' = 0
    /\ events' = <<>>
    /\ invokerCalls' = <<>>
    /\ produced' = <<>>
    /\ UNCHANGED <<ghEvents, messages, catches, fallbackRuns>>
    /\ UNCHANGED <<progressCallbacks, workflowResults, agents, mainTasks>>
    /\ UNCHANGED <<monVars, prVars, parseVars, orchVars>>

(* --------------------------- parseCodeChanges ------------------------- *)
(* A JS string is the sequence of its characters, each a string of length 1. *)
\* the character U+0060 of a fence, written by its name
Backtick == "backtick"

\* the characters \w matches, of those the payloads are made of
WordChars == {"a", "b", "e", "f", "h", "i", "l", "p", "s", "t", "x", "F", "P"}

\* the characters \s matches
WhiteSpace == {" ", "\n"}

\* every character of a payload
Alphabet == WordChars \cup WhiteSpace \cup {Backtick, ":", ".", "/"}

\* the first position from j on whose character is not in S, Len(s) + 1 if none
RECURSIVE SkipWhile(_, _, _)
SkipWhile(s, j, S) ==
    IF j <= Len(s) /\ s[j] \in S THEN SkipWhile(s, j + 1, S) ELSE j

IsFenceAt(s, i) ==
    i + 2 <= Len(s) /\ s[i] = Backtick /\ s[i + 1] = Backtick /\ s[i + 2] = Backtick

\* content.split(/```\w*\n?/), part_011:867: the pieces between the matches of
\* the separator, the empty ones included; cur is the piece being read
RECURSIVE SplitFences(_, _, _)
SplitFences(s, i, cur) ==
    IF i > Len(s) THEN <<cur>>
    ELSE IF IsFenceAt(s, i)
         THEN LET j == SkipWhile(s, i + 3, WordChars)
                  k == IF j <= Len(s) /\ s[j] = "\n" THEN j + 1 ELSE j
              IN <<cur>> \o SplitFences(s, k, <<>>)
         ELSE SplitFences(s, i + 1, Append(cur, s[i]))

\* String.prototype.trim
RECURSIVE Trim(_)
Trim(s) ==
    IF s = <<>> THEN s
    ELSE IF Head(s) \in WhiteSpace THEN Trim(Tail(s))
    ELSE IF s[Len(s)] \in WhiteSpace THEN Trim(SubSeq(s, 1, Len(s) - 1))
    ELSE s

\* the i flag: the lower case of a character
Lower(c) == IF c = "F" THEN "f" ELSE IF c = "P" THEN "p" ELSE c

\* the alternatives File and Path of the first pattern (no payload of the
\* model holds the characters of its third alternative)
Keywords == {<<"f", "i", "l", "e">>, <<"p", "a", "t", "h">>}

KeywordAt(h, p) ==
    /\ p + 3 <= Len(h)
    /\ <<Lower(h[p]), Lower(h[p + 1]), Lower(h[p + 2]), Lower(h[p + 3])>> \in Keywords

NoMatch == [found |-> FALSE, text |-> <<>>]

\* the rest of the line from r on: what ([^\n]+) captures when it starts at r
LineFrom(h, r) == SubSeq(h, r, SkipWhile(h, r, Alphabet \ {"\n"}) - 1)

\* /(?:...|File|Path)[:\s]*([^\n]+)/i tried at position p: [:\s]* takes all it
\* can and gives characters back until a character other than \n follows
HintMatchAt(h, p) ==
    IF ~KeywordAt(h, p) THEN NoMatch
    ELSE LET q == p + 4
             e == SkipWhile(h, q, {":", " ", "\n"})
             back == {r \in q..(e - 1) : h[r] # "\n"}
         IN IF e <= Len(h) THEN [found |-> TRUE, text |-> LineFrom(h, e)]
            ELSE IF back = {} THEN NoMatch
            ELSE LET r == CHOOSE x \in back : \A y \in back : y <= x
                 IN [found |-> TRUE, text |-> LineFrom(h, r)]

\* /([\w\-/]+\.[\w]+)/ tried at position p
PathMatchAt(h, p) ==
    LET m == SkipWhile(h, p, WordChars \cup {"-", "/"})
    IN IF m > p /\ m + 1 <= Len(h) /\ h[m] = "." /\ h[m + 1] \in WordChars
       THEN [found |-> TRUE,
             text |-> SubSeq(h, p, SkipWhile(h, m + 1, WordChars) - 1)]
       ELSE NoMatch

\* String.prototype.match without the g flag: the match at the leftmost
\* position that has one; hits are the matches at the positions 1..Len(h)
LeftmostMatch(hits) ==
    LET found == SelectSeq(hits, LAMBDA m : m.found)
    IN IF found = <<>> THEN NoMatch ELSE Head(found)

\* part_011:875-876
pathMatch(header) ==
    LET hint == LeftmostMatch([p \in 1..Len(header) |-> HintMatchAt(header, p)])
    IN IF hint.found THEN hint
       ELSE LeftmostMatch([p \in 1..Len(header) |-> PathMatchAt(header, p)])

\* the loop of part_011:869-886 from index i on (i counts from 1)
RECURSIVE ParseBlocks(_, _)
ParseBlocks(fileBlocks, i) ==
    IF i > Len(fileBlocks) THEN <<>>
    ELSE LET header == fileBlocks[i]
             m == pathMatch(header)
         IN (IF i + 1 <= Len(fileBlocks) /\ m.found
             THEN <<[path |-> Trim(m.text),
                     content |-> Trim(fileBlocks[i + 1]),
                     action |-> "update"]>>
             ELSE <<>>) \o ParseBlocks(fileBlocks, i + 2)

\* part_011:865-889
parseCodeChanges(s) ==
    ParseBlocks(SelectSeq(SplitFences(s, 1, <<>>), LAMBDA b : b # <<>>), 1)

(* the develop-stage payloads: two fenced code blocks, each preceded by a line
   that names its file *)
\* the paths of the hints: a.ts, s/b.ts, file.ts
HintPaths ==
    {<<"a", ".", "t", "s">>,
     <<"s", "/", "b", ".", "t", "s">>,
     <<"f", "i", "l", "e", ".", "t", "s">>}

\* how a hint line names the path: "File: p", "Path: p" or the path alone
HintForms == {"File", "Path", "bare"}

\* text before the hint line: nothing, or the line "the file"
Proses == {<<>>, <<"t", "h", "e", " ", "f", "i", "l", "e", "\n">>}

\* the language tag of the opening fence: none or ts
FenceTags == {<<>>, <<"t", "s">>}

\* the lines between the fences: "x", " x " or no line at all
BlockBodies == {<<"x", "\n">>, <<" ", "x", " ", "\n">>, <<>>}

HintLine(form, path) ==
    (CASE form = "File" -> <<"F", "i", "l", "e", ":", " ">>
       [] form = "Path" -> <<"P", "a", "t", "h", ":", " ">>
       [] form = "bare" -> <<>>) \o path \o <<"\n">>

Fence == <<Backtick, Backtick, Backtick>>

\* one block of a payload with what stands before it
BlockText(b, tag) ==
    b.prose \o HintLine(b.form, b.path) \o Fence \o tag \o <<"\n">>
        \o b.body \o Fence \o <<"\n">>

PayloadBlocks ==
    [prose : Proses, form : HintForms, path : HintPaths, body : BlockBodies]

\* parseCodeChanges is about to be applied to a payload of two blocks with
\* distinct paths
ParseInit ==
    /\ blocks \in {bs \in [1..2 -> PayloadBlocks] : bs[1].path # bs[2].path}
    /\ \E tag \in FenceTags :
           content = BlockText(blocks[1], tag) \o BlockText(blocks[2], tag)
    /\ parsed = <<>>
    /\ parsePc = "start"

\* part_011:490
ParseCodeChanges ==
    /\ parsePc = "start"
    /\ parsed' = parseCodeChanges(content)
    /\ parsePc' = "done"
    /\ UNCHANGED <<blocks, content>>
    /\ UNCHANGED <<wfVars, monVars, prVars, facVars, swVars, orchVars>>

\* no parseCodeChanges call is under way
ParseIdle ==
    /\ blocks = <<>>
    /\ content = <<>>
    /\ parsed = <<>>
    /\ parsePc = "idle"

(* --------------------------- specifications --------------------------- *)
\* one executeWorkflow invocation on any graph of the bounds
Init == WfInit /\ MonIdle /\ PrIdle /\ FacadeIdle /\ ParseIdle /\ SwarmInit

Next == WfNext

Spec == Init /\ [][Next]_vars


\* executeWorkflow on the graph {A: no deps, B: no deps, C: deps [A, B]}
\* with A = 1, B = 2, C = 3
FanOutGraph == <<{}, {}, {1, 2}>>

FanOutInit == Init /\ tasks = FanOutGraph

SpecFanOut == FanOutInit /\ [][Next]_vars

\* one monitor call against a CI system that creates and advances runs
MonSpecInit == MonInit /\ WfIdle /\ PrIdle /\ FacadeIdle /\ ParseIdle /\ SwarmInit

SpecMon == MonSpecInit /\ [][MonNext]_vars

\* every listing request settles and every sleep ends
SpecMonLive == MonSpecInit /\ [][MonNext]_vars /\ WF_vars(MonitorNext)

\* one executeGitHubWorkflow call (part_011) from its create-branch stage on,
\* with the monitorDeployment call it makes and the CI system
PrSpecInit == PrInit /\ WfIdle /\ MonIdle /\ FacadeIdle /\ ParseIdle /\ SwarmInit

PrSpecNext ==
    \/ PrNext
    \/ \E resp \in Responses : MonitorDeploymentPoll(resp)
    \/ MonitorDeploymentTimeout
    \/ CiNext

SpecPr == PrSpecInit /\ [][PrSpecNext]_vars

\* the lifecycle against a commit action that also answers with status 200
\* and a body that reports success = false
CommitSpecNext ==
    \/ PrSpecNext
    \/ PrCommitResponse(OkFailure)

SpecCommit == PrSpecInit /\ [][CommitSpecNext]_vars

\* one call of a facade of AgentSwarm with the orchestrator workflow it calls:
\* executeNewsWorkflow with executeWorkflow, or executeGitHubWorkflow with
\* waitForOpenCodeCompletion and the CI system
FacadeSpecInit == FacadeInit /\ WfIdle /\ MonIdle /\ PrIdle /\ ParseIdle /\ SwarmInit

FacadeSpecNext ==
    \/ FacadeNext
    \/ WfNext
    \/ \E resp \in Responses : OpenCodePoll(resp)
    \/ OpenCodeTimeout
    \/ CiNext

SpecFacade == FacadeSpecInit /\ [][FacadeSpecNext]_vars

\* parseCodeChanges applied to one payload of two blocks
ParseSpecInit == ParseInit /\ WfIdle /\ MonIdle /\ PrIdle /\ FacadeIdle /\ SwarmInit

SpecParse == ParseSpecInit /\ [][ParseCodeChanges]_vars

(* ------------- executeWorkflow calls that overlap in time ------------- *)
(* Two callers call executeWorkflow of the one orchestrator of             *)
(* getMultiAgentOrchestrator (orchestrator.ts:879-886) and the second call *)
(* starts before the first has returned. results, pendingTasks and         *)
(* completedTasks are consts of the function body (179-181), one set per   *)
(* call; workflowResults is a field of the instance (42). No callback is   *)
(* registered, so emitProgress calls nothing. A step is a step of one call *)
(* as in executeWorkflow above; the steps of the two calls interleave.     *)
CallIds == {1, 2}

\* the graphs the two callers pass: task ids shared between them, with and
\* without a dependency that can never be met
ConcGraphs ==
    {<<{}>>, <<{}, {}>>, <<{}, {1}>>, <<{2}, {}>>, <<{2}, {1}>>, <<{}, {3}>>}

\* what the invoker returns to call i for task t: the content names the call
CallResult(i, ok, t) ==
    [success |-> ok, content |-> IF ok THEN 10 * i + t ELSE 0,
     error |-> IF ok THEN "" ELSE ApiError]

\* the locals of a call at its entry, orchestrator.ts:179-182
NewCall(workflowId, g) ==
    [workflowId |-> workflowId, tasks |-> g, pc |-> "start",
     pendingTasks |-> {}, completedTasks |-> {}, results |-> <<>>,
     inFlight |-> {}, returned |-> {}, previousCompletedCount |-> 0,
     invokerCalls |-> [t \in DOMAIN g |-> 0], produced |-> <<>>]

\* the callers may pass the same workflowId
ConcInit ==
    \E g1 \in ConcGraphs, g2 \in ConcGraphs, w \in CallIds :
        calls = <<NewCall(1, g1), NewCall(w, g2)>>

notCalls == <<wfVars, monVars, prVars, facVars, parseVars, subscribers, received,
              invocation, progressCallbacks, agents, mainTasks>>

\* orchestrator.ts:179-192
ConcStart(i) ==
    /\ calls[i].pc = "start"
    /\ calls' = [calls EXCEPT ![i].pendingTasks = DOMAIN calls[i].tasks,
                              ![i].pc = "loop"]
    /\ UNCHANGED <<notCalls, workflowResults>>

\* orchestrator.ts:235-237 with executeBatch 200-214; areDependenciesMet
\* (195-197) reads the completedTasks of its own call
ConcExecuteBatch(i) ==
    LET c == calls[i]
        readyTasks == {t \in c.pendingTasks : c.tasks[t] \subseteq c.completedTasks}
    IN /\ c.pc = "loop"
       /\ c.pendingTasks # {}
       /\ calls' = [calls EXCEPT
              ![i].previousCompletedCount = Cardinality(c.completedTasks),
              ![i].pendingTasks = c.pendingTasks \ readyTasks,
              ![i].inFlight = readyTasks,
              ![i].invokerCalls = [t \in DOMAIN c.tasks |->
                  IF t \in readyTasks THEN c.invokerCalls[t] + 1
                  ELSE c.invokerCalls[t]],
              ![i].pc = "await"]
       /\ UNCHANGED <<notCalls, workflowResults>>

\* callAIAPI settles for task t of call i, executeSingleTask 139-152
ConcSettleTask(i, t, ok) ==
    LET c == calls[i]
    IN /\ c.pc = "await"
       /\ t \in c.inFlight
       /\ calls' = [calls EXCEPT
              ![i].inFlight = c.inFlight \ {t},
              ![i].returned = c.returned \cup {t},
              ![i].produced = (t :> CallResult(i, ok, t)) @@ c.produced]
       /\ UNCHANGED <<notCalls, workflowResults>>

\* a completed set kept in one place for every call
ConcStoreResultSharedCompleted(i, t) ==
    LET c == calls[i]
    IN /\ c.pc = "await"
       /\ t \in c.returned
       /\ calls' = [j \in DOMAIN calls |->
              IF j = i
              THEN [c EXCEPT !.returned = c.returned \ {t},
                             !.results = (t :> c.produced[t]) @@ c.results,
                             !.completedTasks = c.completedTasks \cup {t}]
              ELSE [calls[j] EXCEPT !.completedTasks = @ \cup {t}]]
       /\ UNCHANGED <<notCalls, workflowResults>>

\* the continuation of the task's promise, orchestrator.ts:216-218, on the
\* results and completedTasks of the call the closure belongs to
ConcStoreResult(i, t) ==
    LET c == calls[i]
    IN /\ c.pc = "await"
       /\ t \in c.returned
       /\ calls' = [calls EXCEPT
              ![i].returned = c.returned \ {t},
              ![i].results = (t :> c.produced[t]) @@ c.results,
              ![i].completedTasks = c.completedTasks \cup {t}]
       /\ UNCHANGED <<notCalls, workflowResults>>

\* Promise.all resolves (231) and the stall check 240-259 runs
ConcBatchDone(i) ==
    LET c == calls[i]
    IN /\ c.pc = "await"
       /\ c.inFlight = {}
       /\ c.returned = {}
       /\ calls' =
              IF Cardinality(c.completedTasks) = c.previousCompletedCount
                 /\ c.pendingTasks # {}
              THEN [calls EXCEPT
                       ![i].results = [t \in c.pendingTasks |-> StallResult]
                                          @@ c.results,
                       ![i].pc = "final"]
              ELSE [calls EXCEPT ![i].pc = "loop"]
       /\ UNCHANGED <<notCalls, workflowResults>>

\* the loop condition of orchestrator.ts:235 is false
ConcLoopExit(i) ==
    /\ calls[i].pc = "loop"
    /\ calls[i].pendingTasks = {}
    /\ calls' = [calls EXCEPT ![i].pc = "final"]
    /\ UNCHANGED <<notCalls, workflowResults>>

\* orchestrator.ts:262-273: the call returns its results map
ConcFinish(i) ==
    /\ calls[i].pc = "final"
    /\ workflowResults' = (calls[i].workflowId :> calls[i].results) @@ workflowResults
    /\ calls' = [calls EXCEPT ![i].pc = "done"]
    /\ UNCHANGED notCalls

ConcNext ==
    \E i \in CallIds :
        \/ ConcStart(i)
        \/ ConcExecuteBatch(i)
        \/ \E t \in DOMAIN calls[i].tasks, ok \in BOOLEAN : ConcSettleTask(i, t, ok)
        \/ \E t \in DOMAIN calls[i].tasks : ConcStoreResult(i, t)
        \/ ConcBatchDone(i)
        \/ ConcLoopExit(i)
        \/ ConcFinish(i)

ConcSpecInit ==
    /\ WfIdle /\ MonIdle /\ PrIdle /\ FacadeIdle /\ ParseIdle
    /\ invocation = 1
    /\ progressCallbacks = <<>>
    /\ workflowResults = <<>>
    /\ agents = [a \in AgentIds |-> "idle"]
    /\ mainTasks = <<>>
    /\ subscribers = <<>>
    /\ received = <<>>
    /\ ConcInit

SpecConc == ConcSpecInit /\ [][ConcNext]_vars

(* ------- executeWorkflow on an orchestrator with raising subscribers ---- *)
\* the classes of the seven emitProgress sites of executeWorkflow and
\* executeSingleTask
EventClasses ==
    {<<"workflow", "running", FALSE>>, <<"workflow", "running", TRUE>>,
     <<"workflow", "completed", TRUE>>, <<"task", "running", FALSE>>,
     <<"task", "completed", TRUE>>, <<"task", "failed", TRUE>>,
     <<"task", "failed", FALSE>>}

\* a callback that raises on the 'completed' event of a task and again on
\* the 'failed' event the catch block emits for it
CompletedAndCaught ==
    {<<"task", "completed", TRUE>>, <<"task", "failed", FALSE>>}

\* a callback that never raises
Observer == {}

\* the raising callbacks: on the events of one class, or on those two
RaiserKinds == {{c} : c \in EventClasses} \cup {CompletedAndCaught}

\* one raising callback and one observer, registered in either order
SubscriberLists ==
    {<<r, Observer>> : r \in RaiserKinds} \cup {<<Observer, r>> : r \in RaiserKinds}

RaisedSpecInit ==
    /\ WfInit /\ MonIdle /\ PrIdle /\ FacadeIdle /\ ParseIdle
    /\ invocation = 1
    /\ progressCallbacks = <<>>
    /\ workflowResults = <<>>
    /\ agents = [a \in AgentIds |-> "idle"]
    /\ mainTasks = <<>>
    /\ subscribers \in SubscriberLists
    /\ received = [s \in DOMAIN subscribers |-> 0]
    /\ calls = <<>>

RaisedSpecNext == WfNext \/ RaisedNext

SpecRaised == RaisedSpecInit /\ [][RaisedSpecNext]_vars

\* up to MaxInvocations calls of AgentSwarm.executeNewsWorkflow or
\* executeGeneralTask, one after the other, on one AgentSwarm, each with the
\* executeWorkflow invocation it makes
SwarmKinds == {"news", "general"}

SwarmSpecInit ==
    /\ FacadeSpecInit \/ (GeneralInit /\ WfIdle /\ MonIdle /\ PrIdle /\ ParseIdle /\ SwarmInit)
    /\ facKind \in SwarmKinds

SwarmSpecNext ==
    \/ FacadeCallNews
    \/ FacadeCallGeneral
    \/ \E ok \in BOOLEAN : PlanSettles(ok)
    \/ WfNext
    \/ \E articles \in ArticleSources : NewsWorkflowSettles(articles)
    \/ GeneralWorkflowSettles
    \/ FacadeReturns
    \/ GeneralFacadeReturns
    \/ FacadeCatches
    \/ FallbackCompletes
    \/ \E kind \in SwarmKinds : NextInvocation(kind)

SpecSwarm == SwarmSpecInit /\ [][SwarmSpecNext]_vars

(* ===================== properties of executeWorkflow ================== *)
DepsOf(S) == UNION {tasks[t] : t \in S \cap TaskIds}

RECURSIVE Closure(_)
Closure(S) == LET S2 == S \cup DepsOf(S) IN IF S2 = S THEN S ELSE Closure(S2)

\* every id task t depends on, directly or transitively
Reach(t) == Closure(tasks[t])

OnCycle(t) == t \in Reach(t)

Acyclic == \A t \in TaskIds : ~OnCycle(t)

HasCycle == \E t \in TaskIds : OnCycle(t)

\* every dependency id is the id of a task of the graph
Closed == \A t \in TaskIds : tasks[t] \subseteq TaskIds

\* t is on a cycle or depends, directly or transitively, on a task of a cycle
DependsOnCycle(t) == OnCycle(t) \/ \E u \in Reach(t) \cap TaskIds : OnCycle(u)

HasResult(t) == t \in DOMAIN results

StallFailed(t) == HasResult(t) /\ results[t] = StallResult

\* t was sent to the invoker once and its stored result is the invoker's
RanOwnInvocation(t) ==
    /\ invokerCalls[t] = 1
    /\ t \in DOMAIN produced
    /\ HasResult(t)
    /\ results[t] = produced[t]

EventIdx(scope, stepId, statuses) ==
    {i \in DOMAIN events : /\ events[i].scope = scope
                           /\ events[i].stepId = stepId
                           /\ events[i].status \in statuses}

WorkflowEventIdx == EventIdx("workflow", 0, {"running", "completed"})

\* executeWorkflow on the acyclic graphs whose dependencies are ids of the graph
AcyclicInit == Init /\ Acyclic /\ Closed

\* Every callAIAPI request settles and the event loop runs every continuation.
SpecLive == AcyclicInit /\ [][Next]_vars /\ WF_vars(Next)

\* C1: for an acyclic graph whose dependencies are ids of the graph, with every
\* invoker call settling, executeWorkflow returns, and the returned map has an
\* entry for every task id and no other key.
C1_AcyclicTerminatesWithFullMap ==
    <>(wfPc = "done" /\ DOMAIN results = TaskIds)

C1_Witness ==
    /\ wfPc = "done"
    /\ Acyclic /\ Closed
    /\ totalTasks = 3
    /\ tasks[3] = {1, 2}
    /\ DOMAIN results = TaskIds

\* C2: a task that has been dispatched (running event emitted, invoker called)
\* has a stored result for every id of its dependencies list.
C2_DispatchedOnlyAfterDependencies ==
    \A t \in TaskIds :
        (invokerCalls[t] > 0 \/ EventIdx("task", t, {"running"}) # {})
            => tasks[t] \subseteq DOMAIN results

C2_Witness ==
    \E t \in inFlight : Cardinality(tasks[t]) = 2 /\ returned = {}

\* C3 as stated: in a graph with a cycle exactly the tasks of the cycle end
\* failed with the dependency-unmet error, and every task outside the cycle is
\* dispatched and ends with the result of its own invocation.
C3_OnlyCycleTasksFail ==
    (wfPc = "done" /\ Closed /\ HasCycle) =>
        \A t \in TaskIds :
            IF OnCycle(t)
            THEN StallFailed(t) /\ invokerCalls[t] = 0
            ELSE RanOwnInvocation(t)

\* C3 amended: the tasks of the cycle and the tasks that depend on it, directly
\* or transitively, end failed with the dependency-unmet error and are never
\* sent to the invoker; every other task is dispatched once and ends with the
\* result of its own invocation.
C3_CycleAndDependentsFail ==
    (wfPc = "done" /\ Closed /\ HasCycle) =>
        \A t \in TaskIds :
            IF DependsOnCycle(t)
            THEN StallFailed(t) /\ invokerCalls[t] = 0
            ELSE RanOwnInvocation(t)

C3_Witness ==
    /\ wfPc = "done"
    /\ Closed
    /\ totalTasks = 3
    /\ ~DependsOnCycle(1)
    /\ OnCycle(2)
    /\ ~OnCycle(3) /\ DependsOnCycle(3)
    /\ RanOwnInvocation(1)
    /\ StallFailed(2) /\ StallFailed(3)

\* the progress values of the events with stepId "workflow" never decrease
WorkflowProgressMonotone ==
    \A i, j \in WorkflowEventIdx :
        i < j => events[i].progress <= events[j].progress

C5_StallFailsAllPending ==
    (wfPc \in {"final", "done"} /\ pendingTasks # {}) =>
        /\ \A t \in pendingTasks :
              /\ StallFailed(t)
              /\ Cardinality(EventIdx("task", t, {"failed"})) = 1
              /\ EventIdx("task", t, {"running", "completed"}) = {}
              /\ invokerCalls[t] = 0
        /\ DOMAIN results = TaskIds

C5_Witness ==
    /\ wfPc = "done"
    /\ totalTasks = 3
    /\ tasks[1] = {} /\ tasks[2] = {0} /\ tasks[3] = {3}
    /\ pendingTasks = {2, 3}
    /\ DOMAIN results = TaskIds

\* C6: on the fan-out graph A and B are dispatched together, C is dispatched
\* only after both A and B have settled and stored their results, never while
\* A or B is in flight, and the returned map has 3 entries.
C6_FanOutThenJoin ==
    /\ invokerCalls[1] = invokerCalls[2]
    /\ invokerCalls[3] > 0 =>
          /\ {1, 2} \subseteq DOMAIN results
          /\ {1, 2} \cap (inFlight \cup returned) = {}
    /\ wfPc = "done" => Cardinality(DOMAIN results) = 3

\* A and B are both in flight
C6_Witness ==
    /\ tasks = FanOutGraph
    /\ inFlight = {1, 2}
    /\ invokerCalls[3] = 0

(* ================== properties of the remote job monitors ============= *)
\* the run the monitor's filter selected in the listing of the last poll
ObservedRun == lastObs.run

ObservedSuccess ==
    /\ lastObs.resp = "ok"
    /\ ObservedRun.status = "completed"
    /\ ObservedRun.conclusion = "success"

\* terminal and not a success, as the listing delivers it
ObservedFailure ==
    /\ lastObs.resp = "ok"
    /\ \/ ObservedRun.status = "failure"
       \/ ObservedRun.status = "completed" /\ ObservedRun.conclusion # "success"

ObservedTerminal ==
    lastObs.resp = "ok" /\ ObservedRun.status \in {"completed", "failure"}

\* the (id, status) pair of the last progress event, <<0, "none">> before any
LastReportedPair ==
    IF monEvents = <<>> THEN <<0, "none">>
    ELSE <<monEvents[Len(monEvents)].runId, monEvents[Len(monEvents)].runStatus>>

\* C7: a poll whose listing shows the matching run as completed with
\* conclusion success makes the monitor return success with that run's id,
\* whatever earlier polls saw of the run. (The URL of the claim is left out:
\* the formula is weaker than the claim.)
C7_ObservedSuccessIsReturned ==
    ObservedSuccess =>
        /\ monPc = "returned"
        /\ monResult.success
        /\ monResult.runId = ObservedRun.id

\* C8: a poll whose listing shows the matching run in a terminal state that is
\* not a success makes the monitor return a failure result for that run.
C8_ObservedFailureIsReturned ==
    ObservedFailure =>
        /\ monPc = "returned"
        /\ ~monResult.success
        /\ monResult.runId = ObservedRun.id

C10_EveryStatusChangeReported ==
    /\ (lastObs.resp = "ok" /\ ObservedRun # NoRun) =>
          LastReportedPair = <<ObservedRun.id, ObservedRun.status>>
    /\ \A i \in 1..(Len(monEvents) - 1) :
          <<monEvents[i].runId, monEvents[i].runStatus>>
              # <<monEvents[i + 1].runId, monEvents[i + 1].runStatus>>

(* ================ properties of the pull-request lifecycle ============ *)
\* the positions of the log entries of one kind for one action
LogIdx(kind, action) ==
    {i \in DOMAIN remoteLog : remoteLog[i].kind = kind /\ remoteLog[i].action = action}

\* the positions of the responses that report a failure of the action
FailedIdx(action) ==
    {i \in LogIdx("response", action) : ~HttpOk(remoteLog[i].resp)}

\* the position of a stage in the fixed order; the deploy monitor is stage 4
StageOf(action) ==
    CASE action = "createBranch" -> 1
      [] action = "commit" -> 2
      [] action = "createPR" -> 3
      [] action = "mergePR" -> 5

OkBefore(action, change, j) ==
    \E i \in 1..(j - 1) :
        \E resp \in {"ok", OkFailure} : remoteLog[i] = Response(action, change, resp)

MonitorStarted == monPc # "idle"

C12_MonitorTimeoutReturnsFailure ==
    (prPc = "done" /\ monPc = "timeout")
        => /\ prResult.success = FALSE
           /\ prResult.pullRequestUrl = 1
           /\ LogIdx("call", "mergePR") = {}

\* C13: when monitorDeployment returned success and the merge request then
\* failed (non-OK response or rejected fetch), the last event is a failed
\* 'merge-pr' event and the returned result carries the pullRequestUrl and the
\* deploymentResult with success = true and merged = false.
C13_MergeFailureKeepsDeployment ==
    (prPc = "done" /\ FailedIdx("mergePR") # {})
        => /\ prEvents[Len(prEvents)] = PrEvent("merge-pr", -1, "failed")
           /\ prResult.pullRequestUrl = 1
           /\ prResult.deploymentResult.success = TRUE
           /\ prResult.deploymentResult.merged = FALSE

\* the commit requests issued so far, in order
CommitCalls == SelectSeq(remoteLog, LAMBDA e : e.kind = "call" /\ e.action = "commit")

Dispatched(t) == EventIdx("task", t, {"running"}) # {}

\* C18: no task id gets more than one callAIAPI request; a task has exactly one
\* request if and only if it was dispatched (and then one 'running' event); a
\* task that carries the stall result got no request; and when executeWorkflow
\* has returned, every task has either its one request or the stall result.
C18_OneInvokerCallPerDispatchedTask ==
    \A t \in TaskIds :
        /\ invokerCalls[t] <= 1
        /\ Dispatched(t) <=> invokerCalls[t] = 1
        /\ Cardinality(EventIdx("task", t, {"running"})) = invokerCalls[t]
        /\ StallFailed(t) => invokerCalls[t] = 0
        /\ wfPc = "done" => (invokerCalls[t] = 1 <=> ~StallFailed(t))

C18_Witness ==
    /\ wfPc = "done"
    /\ \E t, u \in TaskIds : invokerCalls[t] = 1 /\ StallFailed(u)

\* the invoker failed for t: callAIAPI returned {success: false, error}
InvokerFailed(t) == t \in DOMAIN produced /\ ~produced[t].success

\* C19: a failed invoker call is data for executeWorkflow. Once stored, the
\* failed task has a result with success = false and is in completedTasks; when
\* executeWorkflow has returned, every dispatched task, in the batch of a failed
\* one or not, has the result of its own call, and every task whose dependencies
\* were all dispatched, failed or not, was dispatched itself; so on an acyclic
\* graph with dependencies inside the graph every task is called once whatever
\* calls fail.
C19_InvokerFailureIsData ==
    /\ \A t \in TaskIds :
           (InvokerFailed(t) /\ HasResult(t))
               => /\ results[t] = TaskResult(FALSE, t)
                  /\ t \in completedTasks
    /\ wfPc = "done" =>
           /\ DOMAIN results = TaskIds
           /\ \A t \in TaskIds : Dispatched(t) => RanOwnInvocation(t)
           /\ \A u \in TaskIds :
                  (\A d \in tasks[u] : d \in TaskIds /\ Dispatched(d)) => Dispatched(u)
           /\ (Acyclic /\ Closed) => \A t \in TaskIds : RanOwnInvocation(t)

C19_Witness ==
    /\ wfPc = "done"
    /\ \E t, u, v \in TaskIds :
           /\ t # v
           /\ tasks[t] = {} /\ tasks[v] = {}
           /\ InvokerFailed(t)
           /\ results[v].success
           /\ t \in tasks[u]
           /\ results[u].success

(* ================== properties of the workflow facades ================ *)
\* the failure messages of the catch block of the facade
FailureMessageIdx ==
    {i \in DOMAIN messages : messages[i] = Message("pm-1", "system", "workflow failed")}

SimulatedResult ==
    IF facKind = "news" THEN SimulatedNewsResult ELSE SimulatedGitHubResult

AllNewsTasksFailed == \A t \in 1..3 : InvokerFailed(t)

\* C16: when the news facade has resolved: if callAIAPI failed for research,
\* summarize and translate, the value is the scripted fallback summary and the
\* real path returned nothing; if at least one of the three succeeded, the value
\* is what executeNewsWorkflow returned, no fallback ran and no catch happened.
C16_FallbackOnlyWhenAllTasksFail ==
    (facKind = "news" /\ facPc = "resolved") =>
        IF AllNewsTasksFailed
        THEN /\ facResult = SimulatedNewsResult
             /\ realResult = NoFacadeResult
             /\ fallbackRuns = 1
        ELSE /\ realResult # NoFacadeResult
             /\ facResult = realResult
             /\ facResult # SimulatedNewsResult
             /\ fallbackRuns = 0
             /\ catches = 0

C16_Witness ==
    /\ facKind = "news"
    /\ facPc = "resolved"
    /\ AllNewsTasksFailed
    /\ facResult = SimulatedNewsResult

\* the value the facade resolved with was produced by a scripted fallback
FromFallback == facPc = "resolved" /\ fallbackRuns > 0

\* the result itself says that it is not a real result: it has a field that
\* marks it, or (as the mock articles of part_011:383-393 did) its articles
\* name a mock source
LabelledAsFallback(r) ==
    \/ DOMAIN r \cap {"simulated", "fallback", "mock", "source", "label"} # {}
    \/ /\ r.kind = "NewsSummary"
       /\ r.articles \cap {"Mock Data", "simulated", "fallback"} # {}

\* C17: whenever a facade resolved with the result of a scripted fallback, the
\* result carries a label that tells it from a real result, and it is not
\* returned as a plain success.
C17_FallbackResultIsLabelled ==
    FromFallback => LabelledAsFallback(facResult)

(* ==================== properties of parseCodeChanges ================== *)
\* the CodeChange a block of the payload stands for
ChangeOf(b) == [path |-> b.path, content |-> Trim(b.body), action |-> "update"]

\* C20: applied to a payload of two fenced code blocks, each preceded by a hint
\* line naming a path, the two paths distinct, parseCodeChanges returns exactly
\* two entries, in payload order, whose paths are the two hinted paths and whose
\* contents are the trimmed bodies of the blocks.
C20_TwoBlocksGiveTwoChanges ==
    parsePc = "done" => parsed = <<ChangeOf(blocks[1]), ChangeOf(blocks[2])>>

(* ================== batches of executeWorkflow ======================== *)
IsRunningTaskEvent(i) ==
    i \in DOMAIN events /\ events[i].scope = "task" /\ events[i].status = "running"

\* the 'running' events that open a batch: executeBatch emits the 'running'
\* events of its ready tasks one after the other, with no other event between
BatchStarts == {i \in DOMAIN events : IsRunningTaskEvent(i) /\ ~IsRunningTaskEvent(i - 1)}

\* the number of the batch that dispatched t (0 when t was not dispatched)
BatchOf(t) ==
    IF EventIdx("task", t, {"running"}) = {} THEN 0
    ELSE LET i == CHOOSE x \in EventIdx("task", t, {"running"}) : TRUE
         IN Cardinality({b \in BatchStarts : b <= i})

\* t was dispatched and its continuation has not stored its result yet
Unsettled(t) == t \in inFlight \cup returned

\* C21: a step that dispatches tasks starts from a state with no unsettled
\* task: every task dispatched before has its terminal event, its stored result
\* and is in completedTasks, also when the dependencies of the new tasks were
\* stored earlier in that batch; so all unsettled tasks were dispatched by the
\* same step, that is, they belong to a single batch.
C21_BatchBarrier ==
    [][(\E t \in TaskIds : invokerCalls'[t] > invokerCalls[t]) =>
           /\ inFlight = {} /\ returned = {}
           /\ \A u \in TaskIds :
                  invokerCalls[u] > 0
                      => /\ HasResult(u)
                         /\ u \in completedTasks
                         /\ EventIdx("task", u, {"completed", "failed"}) # {}
           /\ \A t \in TaskIds :
                  (t \in inFlight' \cup returned') <=> invokerCalls'[t] > invokerCalls[t]]_vars

\* a pending task whose only dependency has already been stored waits while
\* another task of the batch is still in flight
C21_Witness ==
    \E t \in pendingTasks, u \in inFlight :
        /\ tasks[t] # {}
        /\ areDependenciesMet(t)
        /\ u \notin tasks[t]
        /\ BatchOf(u) = 1

(* ================== task events of executeWorkflow ==================== *)
RunningEvents(t) == EventIdx("task", t, {"running"})

TerminalEvents(t) == EventIdx("task", t, {"completed", "failed"})

\* C22 as stated: every task of the graph has exactly one 'running' event and
\* exactly one terminal event after it in the stream of a returned invocation.
C22_EveryTaskRunningThenTerminal ==
    wfPc = "done" =>
        \A t \in TaskIds :
            /\ Cardinality(RunningEvents(t)) = 1
            /\ Cardinality(TerminalEvents(t)) = 1
            /\ \A i \in RunningEvents(t), j \in TerminalEvents(t) : i < j

\* C22 amended: a task has at most one 'running' and at most one terminal
\* event; it has the 'running' event exactly when it was sent to the invoker,
\* and then the terminal event comes after it; a terminal event without a
\* 'running' event is the 'failed' event of the stall branch for a task that was
\* never dispatched; when executeWorkflow has returned every task has exactly
\* one terminal event, and a 'running' event unless the stall branch failed it.
C22_DispatchedTaskRunningThenTerminal ==
    \A t \in TaskIds :
        LET running == RunningEvents(t)
            terminal == TerminalEvents(t)
        IN /\ Cardinality(running) <= 1
           /\ Cardinality(terminal) <= 1
           /\ running # {} <=> invokerCalls[t] = 1
           /\ \A i \in running, j \in terminal : i < j
           /\ (terminal # {} /\ running = {})
                  => /\ StallFailed(t)
                     /\ \A j \in terminal :
                            events[j] = Progress("task", t, "failed", 0)
           /\ (running # {} /\ terminal # {})
                  => /\ t \in DOMAIN produced
                     /\ \A j \in terminal :
                            events[j] = Progress("task", t,
                                IF produced[t].success THEN "completed" ELSE "failed", 100)
           /\ wfPc = "done" =>
                  /\ Cardinality(terminal) = 1
                  /\ running = {} <=> StallFailed(t)

\* a returned invocation with a completed task, a task whose call failed and a
\* task failed by the stall branch
C22_Witness ==
    /\ wfPc = "done"
    /\ \E t, u, v \in TaskIds :
           /\ RunningEvents(t) # {} /\ produced[t].success
           /\ RunningEvents(u) # {} /\ ~produced[u].success
           /\ RunningEvents(v) = {} /\ TerminalEvents(v) # {}

(* ================== stall detection of executeWorkflow ================ *)
\* t can never become ready: it is on a cycle, or depends, directly or
\* transitively, on a task of a cycle or on an id of no task
InRemainder(t) == DependsOnCycle(t) \/ \E d \in Reach(t) : d \notin TaskIds

Remainder == {t \in TaskIds : InRemainder(t)}

StallDeclared == \E t \in TaskIds : StallFailed(t)

\* the iteration under way found no ready task: its batch was empty
EmptyIteration ==
    /\ wfPc = "await"
    /\ inFlight = {} /\ returned = {}
    /\ Cardinality(completedTasks) = previousCompletedCount

\* C23: in every graph, the stall branch fails exactly the tasks that can never
\* become ready (never sent to the invoker), and when it runs every other task
\* has been dispatched once and has the result of its own invocation; the stall
\* is declared by the first iteration that finds no ready task (its next step
\* fails every pending task) and by no iteration that found one.
C23_TwoPhaseStall ==
    /\ [](/\ \A t \in TaskIds : StallFailed(t) => InRemainder(t)
          /\ StallDeclared =>
                 /\ \A t \in TaskIds \ Remainder : RanOwnInvocation(t)
                 /\ \A t \in Remainder : StallFailed(t) /\ invokerCalls[t] = 0
                 /\ pendingTasks = Remainder
          /\ (wfPc = "done" /\ Remainder # {}) => StallDeclared)
    /\ [][/\ EmptyIteration =>
                 /\ wfPc' = "final"
                 /\ \A t \in pendingTasks : t \in DOMAIN results' /\ results'[t] = StallResult
          /\ (~StallDeclared /\ StallDeclared') => EmptyIteration]_vars

\* a task of the second batch ran, and the iteration after it declared the
\* stall for a remainder that holds a cycle or a missing id
C23_Witness ==
    /\ wfPc = "done"
    /\ \E t \in TaskIds \ Remainder, u \in Remainder :
           /\ tasks[t] # {}
           /\ RanOwnInvocation(t)
           /\ BatchOf(t) = 2
           /\ StallFailed(u)

(* ============ state kept by the swarm and its orchestrator ============ *)
\* C24: while a later facade call runs on the same AgentSwarm, the orchestrator
\* holds no progress handler registered for an earlier call and no result map
\* of an earlier workflow, so every registered handler is the one of the call
\* under way and each event reaches one handler.
C24_NoCrossInvocationPersistence ==
    invocation > 1 =>
        /\ \A k \in DOMAIN progressCallbacks : progressCallbacks[k] = invocation
        /\ DOMAIN workflowResults \subseteq {invocation}
        /\ Len(progressCallbacks) <= 1

\* C28: a main task with status 'completed' has progress 100.
C28_CompletedTaskHasProgress100 ==
    \A m \in DOMAIN mainTasks :
        mainTasks[m].status = "completed" => mainTasks[m].progress = 100

\* C29: when executeNewsWorkflow of the swarm has resolved with the result the
\* orchestrator returned, every agent has status 'idle'.
C29_AgentsIdleAfterRealPath ==
    (facKind = "news" /\ facPc = "resolved" /\ realPc = "returned")
        => \A a \in AgentIds : agents[a] = "idle"

(* ================ graphs the facades give to executeWorkflow ========== *)
PlanSucceeded == EventIdx("task", PlanId, {"completed"}) # {}

\* C25: every graph a facade has given to executeWorkflow is closed under
\* dependencies; and when executeGeneralWorkflow has returned after a plan step
\* that succeeded, research and execute were sent to the invoker, research
\* first, and the returned success is the success of the execute invocation.
C25_SubmittedGraphsAreClosed ==
    /\ wfPc # "idle" => Closed
    /\ (facKind = "general" /\ realPc = "returned" /\ PlanSucceeded)
           => /\ RanOwnInvocation(1)
              /\ RanOwnInvocation(2)
              /\ \A i \in EventIdx("task", 1, {"running"}),
                    j \in EventIdx("task", 2, {"running"}) : i < j
              /\ realResult.success = produced[2].success

(* ================== the runs a monitor reports ======================== *)
\* the run with this id was created at or after the monitor's start
CreatedSinceStart(id) == id \in DOMAIN ciRuns /\ ciRuns[id].created >= startTime

\* C26: every run that is the subject of a progress event of the monitor, and
\* the run of the result the monitor returned, was created at or after the
\* monitor's start.
C26_OnlyRunsCreatedSinceStart ==
    /\ \A i \in DOMAIN monEvents :
           monEvents[i].runId # 0 => CreatedSinceStart(monEvents[i].runId)
    /\ (monPc = "returned" /\ monResult.runId # 0)
           => CreatedSinceStart(monResult.runId)

(* ================== the sets of executeWorkflow ======================= *)
\* executeWorkflow has built its maps (orchestrator.ts:179-182) and runs
Running == wfPc \in {"loop", "await", "final", "done"}

StallFailedTasks == {t \in TaskIds : StallFailed(t)}

\* the number of the sets pendingTasks, in flight and completedTasks that hold t
SetsHolding(t) ==
    (IF t \in pendingTasks THEN 1 ELSE 0)
        + (IF t \in inFlight \cup returned THEN 1 ELSE 0)
        + (IF t \in completedTasks THEN 1 ELSE 0)

\* C27 as stated: every task id is in exactly one of pendingTasks, in flight,
\* completedTasks and the stall-failed tasks; completedTasks is a subset of the
\* keys of results; no task id comes back to pendingTasks.
C27_FourDisjointSets ==
    /\ [](Running =>
             /\ \A t \in TaskIds :
                    SetsHolding(t) + (IF StallFailed(t) THEN 1 ELSE 0) = 1
             /\ completedTasks \subseteq DOMAIN results)
    /\ [][Running => pendingTasks' \subseteq pendingTasks]_vars

\* C27 amended: every task id is in exactly one of pendingTasks, in flight and
\* completedTasks; the tasks the stall branch failed are still in pendingTasks
\* (the branch deletes nothing) and are all of pendingTasks once the loop has
\* ended; the keys of results are completedTasks and the stall-failed tasks; no
\* task id comes back to pendingTasks.
C27_ThreeDisjointSetsStallInPending ==
    /\ [](Running =>
             /\ \A t \in TaskIds : SetsHolding(t) = 1
             /\ StallFailedTasks \subseteq pendingTasks
             /\ StallFailedTasks # {} => wfPc \in {"final", "done"}
             /\ wfPc \in {"final", "done"} => StallFailedTasks = pendingTasks
             /\ completedTasks \subseteq DOMAIN results
             /\ DOMAIN results = completedTasks \cup StallFailedTasks)
    /\ [][Running => pendingTasks' \subseteq pendingTasks]_vars

\* a task of each kind at once: pending, in flight, returned but not stored,
\* and completed are met in one batch; a stall-failed task is met at the end
C27_Witness ==
    \/ \E t \in pendingTasks, u \in inFlight, v \in completedTasks : returned = {}
    \/ /\ wfPc = "done"
       /\ StallFailedTasks # {}
       /\ completedTasks # {}

(* ================== stage events of the lifecycle ===================== *)
\* the 'running' event at index i is followed by a terminal event of its stage
Terminated(i) ==
    \E j \in DOMAIN prEvents :
        /\ i < j
        /\ prEvents[j].stepId = prEvents[i].stepId
        /\ prEvents[j].idx = prEvents[i].idx
        /\ prEvents[j].status \in {"completed", "failed"}

\* C30: when executeGitHubWorkflow has returned, every stage that emitted a
\* 'running' event has a later 'completed' or 'failed' event with its stepId.
C30_EveryRunningStageIsTerminated ==
    prPc = "done" =>
        \A i \in DOMAIN prEvents : prEvents[i].status = "running" => Terminated(i)

(* ------------------------------- C31 ---------------------------------- *)
\* the promise of executeWorkflow rejected
Rejected == wfPc = "rejected"

\* C31: a progress subscriber that raises while handling an event cannot
\* make executeWorkflow reject, cannot cause a task to be left without a
\* result (a call that has ended has a result for every task of its graph),
\* and does not keep the subscribers registered after it from receiving the
\* event (every subscriber was handed every event emitted so far)
C31_RaisingSubscriberIsContained ==
    /\ ~Rejected
    /\ wfPc \in {"done", "rejected"} /\ inFlight = {} /\ returned = {}
           => \A t \in TaskIds : HasResult(t)
    /\ \A s \in DOMAIN subscribers : received[s] = Len(events)

(* ------------------------------- C32 ---------------------------------- *)
\* the invoker was called for task t of call i
ConcDispatched(i, t) == calls[i].invokerCalls[t] > 0

\* the invoker of call i has settled task t
OwnSettled(i, t) ==
    /\ t \in DOMAIN calls[i].produced
    /\ calls[i].produced[t] \in {CallResult(i, ok, t) : ok \in BOOLEAN}

\* C32: two executeWorkflow calls that overlap in time on one orchestrator,
\* with graphs that reuse task ids, do not interfere: a call dispatches a
\* task only when its own invoker calls have settled every dependency of the
\* task and its own completed set holds them, the completed set of a call
\* holds only tasks its own invoker calls settled, and the map a call returns
\* has exactly the task ids of its own graph as keys, each with the result of
\* the call's own invoker call (or the stall failure for a task it never
\* dispatched)
C32_OverlappingCallsDoNotInterfere ==
    \A i \in CallIds :
        LET c == calls[i]
        IN /\ \A t \in DOMAIN c.tasks :
                  ConcDispatched(i, t) =>
                      \A d \in c.tasks[t] : d \in c.completedTasks /\ OwnSettled(i, d)
           /\ \A t \in c.completedTasks : OwnSettled(i, t)
           /\ c.pc = "done" =>
                  /\ DOMAIN c.results = DOMAIN c.tasks
                  /\ \A t \in DOMAIN c.tasks :
                         IF ConcDispatched(i, t)
                         THEN OwnSettled(i, t) /\ c.results[t] = c.produced[t]
                         ELSE c.results[t] = StallResult

\* both calls are under way with task id 1 in both graphs: call 1 has stored
\* its result of task 1 and dispatched task 2 behind it, call 2 has not
\* completed its task 1
C32_Witness ==
    /\ calls[1].pc = "await" /\ calls[2].pc = "await"
    /\ 1 \in calls[1].completedTasks /\ 2 \in calls[1].inFlight
    /\ 1 \in calls[1].tasks[2]
    /\ 1 \in DOMAIN calls[2].tasks /\ 1 \notin calls[2].completedTasks
    /\ calls[2].inFlight # {}

(* ------------------------------- C33 ---------------------------------- *)
\* the gate of part_011:504 is closed
NothingToCommit == ~canCommitToGitHub \/ changes = <<>>

\* C33: if GitHub is not configured, or the develop output parses to no
\* CodeChange, the pull-request lifecycle issues no createBranch, commit,
\* createPR or mergePR request and no monitor poll, and the result it returns
\* has no pullRequestUrl and no deploymentResult, and its success flag is the
\* success of the develop task
C33_ClosedGateWritesNothing ==
    NothingToCommit =>
        /\ remoteLog = <<>>
        /\ monPc = "idle" /\ pollCount = 0 /\ monEvents = <<>>
        /\ prPc \in {"start", "done"}
        /\ prPc = "done" =>
               prResult = [success |-> developSuccess, pullRequestUrl |-> 0,
                           deploymentResult |-> NoDeployment]

\* the lifecycle has returned without a configured GitHub although the
\* develop task succeeded and its output holds changes
C33_Witness ==
    /\ prPc = "done"
    /\ ~canCommitToGitHub
    /\ Len(changes) > 0
    /\ developSuccess
    /\ prResult.success

(* ------------------------------- C34 ---------------------------------- *)
\* the positions of the commit responses whose body reports success = false
\* under an OK status
CommitRefused ==
    {i \in LogIdx("response", "commit") : remoteLog[i].resp = OkFailure}

\* C34: a response of the commit action whose body reports success = false,
\* delivered with an OK status, never leads to a 'Committed' event for the
\* file, to a further commit or to the createPR call: it is the last entry of
\* the log and no 'completed' event of the file's commit-file stage exists
C34_RefusedCommitIsNotReportedCommitted ==
    \A i \in CommitRefused :
        /\ i = Len(remoteLog)
        /\ \A e \in DOMAIN prEvents :
               prEvents[e] # PrEvent("commit-file", remoteLog[i].change - 1, "completed")

====
